---- MODULE Spec2Model ----
(***************************************************************************)
(* State-machine model of the ESP32-C3 pressure gateway firmware:          *)
(*   - the Lifecycle Controller (system_state.cpp): notification drain,    *)
(*     transition table, suspend/resume action table, ERROR restart;       *)
(*   - the Message Batcher (message_formatter.cpp): state gate, drain of   *)
(*     Queue B, size/time flush, serialization, hand-over to Queue C;      *)
(*   - the producers and consumers around them, as far as the controller   *)
(*     and the batcher observe them.                                       *)
(* The device is a single-core FreeRTOS target: a task runs only while     *)
(* every task of higher priority is blocked or suspended.                  *)
(***************************************************************************)
EXTENDS Integers, Sequences, FiniteSets, TLC

VARIABLES
    g_systemState,        \* volatile SystemState g_systemState
    notifyValue,          \* notification bits pending on the state manager task
    event,                \* uint32_t event of handleStateTransitions: the bits drained in this tick
    ctrlPc,               \* position of stateManagementTask (and of setup() before it exists)
    suspended,            \* tasks currently in the FreeRTOS suspended state
    g_otaTaskHandle,      \* TRUE iff g_otaTaskHandle != NULL
    tickStartState,       \* history: the System State at the start of the tick of stateManagementTask
    fmtPc,                \* position of messageFormatterTask
    fmtElapsed,           \* currentTime - lastBatchSendTime, currentTime as sampled at the top of the batcher tick
    batchAge,             \* millis() - lastBatchSendTime, saturated at the flush timeout
    eventBatchBuffer,     \* eventBatchBuffer[0 .. batchEventCount-1]
    g_pressureEventQueue, \* Queue B
    g_mqttQueue,          \* Queue C
    jsonErrors,           \* serialization error counter
    produced,             \* events the Signal Processor has finalized since boot
    mqttReached,          \* history: the state has been CONNECTED_MQTT since boot
    signalInput,          \* the sensor signal read by the Sample Source (a profile of SignalProfiles)
    sampleIndex,          \* readings of the signal taken from Queue A so far
    intervalTimeout,      \* value of the macro MAX_INTERVAL_TIMEOUT_MS in the build
    filtersInitialized,   \* static bool filtersInitialized
    primaryFiltered,      \* static float primaryFiltered (fixed point)
    secondaryFiltered,    \* static float secondaryFiltered (fixed point)
    derivativeWindow,     \* DerivativeWindow: values, timestamps, writeIndex, count
    windowPushed,         \* history: the pairs passed to addToDerivativeWindow, the last DERIVATIVE_WINDOW_SIZE of them, oldest first
    filteredDerivative,   \* static float filteredDerivative (fixed point)
    stateMachine,         \* SignalStateMachine: currentState, stateStartTime
    stableAccumulator,    \* StableAccumulator
    currentEvent,         \* PressureEvent currentEvent
    eventInProgress,      \* static bool eventInProgress
    eventsQueueFull,      \* drop counter of the Signal Processor
    queueFullNotified,    \* history: calls of notifySystemState(EVENT_PRESSURE_QUEUE_FULL)
    lastFinalized,        \* history: the events finalized by the last reading, in order
    entryDerivative,      \* history: filteredDerivative at the last entry into CHANGING
    telemetryFailing,     \* history: the last xQueueSend of the Signal Processor failed
    g_pressureQueue,      \* Queue A: the number of readings waiting
    queueFailCount,       \* static uint32_t queueFailCount of pressureReaderTask
    readerFailing,        \* history: the last xQueueSend of the Sample Source failed
    readerNotified,       \* history: queue-full notifications sent by the Sample Source
    readerPc,             \* position of pressureReaderTask
    g_i2cMutex,           \* the holder of the bus mutex
    readerReading,        \* PressureReading reading of pressureReaderTask: rawValue, isValid
    success,              \* bool success of readRawPressure
    lastValidRawValue,    \* static uint32_t lastValidRawValue
    firstSample,          \* static bool firstSample
    consecutiveInvalidCount, \* static uint8_t consecutiveInvalidCount
    i2cConsecutiveErrors, \* static uint32_t i2cConsecutiveErrors
    levelRun,             \* history: the consecutive readings at the present level
    busRun,               \* history: the consecutive failed reads and what followed them
    networkAvailable,     \* input: the access point and the remote host can be reached
    wifiStatus,           \* WiFi.status() == WL_CONNECTED
    credentialsInFlash,   \* the preferences "iot-secrets" hold a certificate and a key
    apiAvailable,         \* input: the provisioning API answers with credentials
    credentialsLoaded,    \* static bool credentialsLoaded
    brokerAvailable,      \* input: mqttClient.connect can reach the broker
    mqttConnected,        \* mqttClient.connected()
    reconnectDue          \* millis() - lastReconnectAttempt > MQTT_RECONNECT_INTERVAL_MS

\* the connectivity the WiFi and MQTT tasks see and keep
netVars == << networkAvailable, wifiStatus, credentialsInFlash, apiAvailable,
              credentialsLoaded, brokerAvailable, mqttConnected, reconnectDue >>

vars == << g_systemState, notifyValue, event, ctrlPc, suspended, g_otaTaskHandle,
           tickStartState,
           fmtPc, fmtElapsed, batchAge, eventBatchBuffer,
           g_pressureEventQueue, g_mqttQueue, jsonErrors, produced,
           mqttReached, signalInput, sampleIndex, intervalTimeout,
           filtersInitialized, primaryFiltered, secondaryFiltered,
           derivativeWindow, windowPushed, filteredDerivative, stateMachine,
           stableAccumulator, currentEvent, eventInProgress, eventsQueueFull,
           queueFullNotified, lastFinalized, entryDerivative, telemetryFailing,
           g_pressureQueue, queueFailCount, readerFailing, readerNotified,
           readerPc, g_i2cMutex, readerReading, success, lastValidRawValue,
           firstSample, consecutiveInvalidCount, i2cConsecutiveErrors,
           levelRun, busRun, netVars >>

\* the state of readRawPressure and validatePressureReading
busVars == << readerPc, g_i2cMutex, readerReading, success, lastValidRawValue,
              firstSample, consecutiveInvalidCount, i2cConsecutiveErrors,
              levelRun, busRun >>
ctrlVars == << g_systemState, notifyValue, event, ctrlPc, suspended, g_otaTaskHandle,
              tickStartState, netVars >>
fmtVars  == << fmtPc, fmtElapsed, batchAge, eventBatchBuffer, g_mqttQueue, jsonErrors >>
sigVars  == << signalInput, sampleIndex, intervalTimeout, filtersInitialized,
               primaryFiltered, secondaryFiltered, derivativeWindow, windowPushed,
               filteredDerivative, stateMachine, stableAccumulator,
               currentEvent, eventInProgress, eventsQueueFull,
               queueFullNotified, lastFinalized, entryDerivative,
               telemetryFailing, g_pressureQueue, queueFailCount, readerFailing,
               readerNotified, busVars >>
\* the part of sigVars a finalize leaves alone
procVars == << signalInput, sampleIndex, intervalTimeout, filtersInitialized,
               primaryFiltered, secondaryFiltered, derivativeWindow, windowPushed,
               filteredDerivative, stateMachine, stableAccumulator,
               currentEvent, eventInProgress, lastFinalized, entryDerivative >>
readerVars == << g_pressureQueue, queueFailCount, readerFailing, readerNotified,
                 busVars >>

----------------------------------------------------------------------------
(* Bounds of the model *)

\* at most this many notification bits are pending at one time
MaxPending == 2
\* events finalized by the Signal Processor per boot, lifecycle specification
MaxProducedLifecycle == 1
\* events finalized by the Signal Processor per boot, batcher specification
MaxProducedBatch == 3
\* serialization failures counted per boot
MaxJsonErrors == 1
\* milliseconds by which one step of the clock advances millis()
ClockStepMs == 2000

----------------------------------------------------------------------------
(* Program constants *)

PRESSURE_READER_PRIORITY == 5
PRESSURE_TELEMETRY_PRIORITY == 3
MESSAGE_FORMATTER_PRIORITY == 2
\* priority of the state management task
STATE_MANAGER_PRIORITY == 3
MAX_EVENTS_PER_MESSAGE == 8
FORMATTER_SEND_TIMEOUT_MS == 2000
PRESSURE_EVENT_QUEUE_SIZE == 10
MQTT_QUEUE_SIZE == 10
MAX_SAMPLES_PER_EVENT == 100
\* sizeof(mqttMsg.payload)
PAYLOAD_SIZE == 4096
\* estimate ceiling of calculateOptimalBatchSize: 4096 - 512
ESTIMATE_LIMIT == 3584
\* sample count up to which formatEventToJson writes the samples array
JSON_SAMPLES_CAP == 50

----------------------------------------------------------------------------
(* Lifecycle Controller: states, events, tasks *)

SystemStates ==
    { "CONNECTING", "CONFIG_MQTT", "CONNECTED_WIFI", "CONNECTED_MQTT",
      "CONFIG_MODE", "OTA_UPDATE", "ERROR" }

\* TaskNotificationEvent bits that some component passes to notifySystemState
Events ==
    { "LONG_PRESS_BUTTON", "WIFI_CONNECTED", "NO_PARAMETERS_EEPROM",
      "WIFI_FAIL_CONNECT", "MQTT_AWS_CREDENTIALS", "MQTT_CONNECTED",
      "MQTT_DISCONNECTED", "WIFI_DISCONNECTED", "OTA_UPDATE",
      "PRESSURE_QUEUE_FULL", "I2C_ERROR_RECOVERY",
      "BUTTON_PRESSED", "BUTTON_RELEASED" }

\* the bits some case of handleStateTransitions tests
TransitionEvents ==
    { "LONG_PRESS_BUTTON", "WIFI_CONNECTED", "NO_PARAMETERS_EEPROM",
      "MQTT_AWS_CREDENTIALS", "MQTT_CONNECTED", "MQTT_DISCONNECTED",
      "WIFI_DISCONNECTED", "OTA_UPDATE" }

\* the bits the components set in the model: those the transitions test,
\* and PRESSURE_QUEUE_FULL standing for the bits no transition tests
NotifiedEvents == TransitionEvents \cup { "PRESSURE_QUEUE_FULL" }

\* tasks whose handles handleStateActions suspends and resumes
Tasks ==
    { "wifiConnect", "wifiConfig", "mqttConnect", "mqtt", "pressureReader",
      "button", "pressureTelemetry", "messageFormatter" }

\* Sample Source, Signal Processor, Message Batcher
PipelineTasks == { "pressureReader", "pressureTelemetry", "messageFormatter" }

\* tasks suspended by initializeSystemState right after their creation
\* (the formatter's own vTaskSuspend is the step BootFinish)
InitSuspended == { "wifiConfig", "mqttConnect", "mqtt" }

\* priority given to xTaskCreate for each task
TaskPriority(t) ==
    CASE t = "pressureReader"    -> PRESSURE_READER_PRIORITY
      [] t = "pressureTelemetry" -> PRESSURE_TELEMETRY_PRIORITY
      [] t = "messageFormatter"  -> MESSAGE_FORMATTER_PRIORITY
      [] t = "button"            -> 1
      [] OTHER                   -> 2

\* the controller is running (not blocked): no task of lower priority runs
CtrlRunning == ctrlPc = "actions"

\* task t can execute a step now
CanRun(t) ==
    /\ t \notin suspended
    /\ CtrlRunning => TaskPriority(t) >= STATE_MANAGER_PRIORITY

----------------------------------------------------------------------------
(* Lifecycle Controller: handleStateTransitions *)

\* a variant of the ERROR case that reconnects on WIFI_CONNECTED
C5_ErrorCaseReconnects(s, ev) ==
    IF "WIFI_CONNECTED" \in ev THEN "CONNECTING" ELSE s

\* case SYSTEM_STATE_ERROR: the state is logged and kept
ErrorCase(s, ev) == s

\* The switch of handleStateTransitions on the state s read by
\* getSystemState, the drained notification value being ev.  Inside one case
\* the tests run in source order and a later setSystemState overwrites an
\* earlier one.
StateCase(s, ev) ==
    IF s = "CONNECTING" THEN
        LET s1 == IF "WIFI_CONNECTED" \in ev THEN "CONFIG_MQTT" ELSE s
            s2 == IF "NO_PARAMETERS_EEPROM" \in ev THEN "CONFIG_MODE" ELSE s1
        IN  s2
    ELSE IF s = "CONFIG_MQTT" THEN
        IF "MQTT_AWS_CREDENTIALS" \in ev THEN "CONNECTED_WIFI" ELSE s
    ELSE IF s = "CONNECTED_WIFI" THEN
        IF "MQTT_CONNECTED" \in ev THEN "CONNECTED_MQTT" ELSE s
    ELSE IF s = "CONNECTED_MQTT" THEN
        LET s1 == IF "MQTT_DISCONNECTED" \in ev THEN "CONFIG_MQTT" ELSE s
            s2 == IF "WIFI_DISCONNECTED" \in ev THEN "CONNECTING" ELSE s1
            s3 == IF "OTA_UPDATE" \in ev THEN "OTA_UPDATE" ELSE s2
        IN  s3
    ELSE IF s = "CONFIG_MODE" THEN
        IF "WIFI_CONNECTED" \in ev THEN "CONFIG_MQTT" ELSE s
    ELSE IF s = "ERROR" THEN ErrorCase(s, ev)
    ELSE s

\* a variant of handleStateTransitions without the global long-press test
C6_TransitionTargetSwitchOnly(s, ev) ==
    IF ev = {} THEN s ELSE StateCase(s, ev)

\* a variant that runs the switch again on the state the switch has set
C34_TransitionTargetChained(s, ev) ==
    IF ev = {} THEN s
    ELSE IF "LONG_PRESS_BUTTON" \in ev THEN "CONFIG_MODE"
    ELSE StateCase(StateCase(s, ev), ev)

\* The state left by handleStateTransitions: nothing on an empty value, the
\* long press first (globally, in any state), then the switch.
TransitionTarget(s, ev) ==
    IF ev = {} THEN s
    ELSE IF "LONG_PRESS_BUTTON" \in ev THEN "CONFIG_MODE"
    ELSE StateCase(s, ev)

\* notifySystemState(e): xTaskNotify(..., eSetBits); nothing happens while
\* the state manager task does not exist yet.  The callers of the bits the
\* transitions test are tasks of priority 2 and 1; while the state manager
\* runs, only a bit no transition tests can be set (reader, processor, ISR)
NotifySystemState(e) ==
    /\ ctrlPc # "boot"
    /\ CtrlRunning => e \notin TransitionEvents
    /\ e \notin notifyValue
    /\ Cardinality(notifyValue) < MaxPending
    /\ notifyValue' = notifyValue \cup {e}
    /\ UNCHANGED << g_systemState, event, ctrlPc, suspended, g_otaTaskHandle, tickStartState, netVars,
                    produced, g_pressureEventQueue, mqttReached >>
    /\ UNCHANGED fmtVars
    /\ UNCHANGED sigVars

\* handleStateTransitions: xTaskNotifyWait returns the pending bits and
\* clears them (an empty value after the 50 ms timeout), then the switch
HandleStateTransitions ==
    /\ ctrlPc = "wait"
    /\ event' = notifyValue
    /\ notifyValue' = {}
    /\ g_systemState' = TransitionTarget(g_systemState, notifyValue)
    /\ ctrlPc' = "actions"
    /\ mqttReached' = (mqttReached \/ g_systemState' = "CONNECTED_MQTT")
    /\ tickStartState' = g_systemState
    /\ UNCHANGED netVars
    /\ UNCHANGED << suspended, g_otaTaskHandle, produced, g_pressureEventQueue >>
    /\ UNCHANGED fmtVars
    /\ UNCHANGED sigVars

----------------------------------------------------------------------------
(* Lifecycle Controller: handleStateActions *)

\* the OTA_UPDATE case acts only while no OTA task has been created
ActsIn(s, ota) == s # "OTA_UPDATE" \/ ~ota

\* a variant whose CONNECTED_WIFI case does not resume the publisher
C40_ResumedInWithoutPublisher(s) ==
    CASE s = "CONNECTING"     -> { "wifiConnect" }
      [] s = "CONNECTED_WIFI" -> { "wifiConnect", "pressureReader",
                                   "pressureTelemetry" }
      [] s = "CONFIG_MQTT"    -> { "wifiConnect", "mqttConnect" }
      [] s = "CONNECTED_MQTT" -> { "wifiConnect", "mqtt", "pressureReader",
                                   "pressureTelemetry", "messageFormatter" }
      [] s = "CONFIG_MODE"    -> { "wifiConfig" }
      [] OTHER                -> {}

\* handles passed to vTaskResume in the case of state s
ResumedIn(s) ==
    CASE s = "CONNECTING"     -> { "wifiConnect" }
      [] s = "CONNECTED_WIFI" -> { "wifiConnect", "mqtt", "pressureReader",
                                   "pressureTelemetry" }
      [] s = "CONFIG_MQTT"    -> { "wifiConnect", "mqttConnect" }
      [] s = "CONNECTED_MQTT" -> { "wifiConnect", "mqtt", "pressureReader",
                                   "pressureTelemetry", "messageFormatter" }
      [] s = "CONFIG_MODE"    -> { "wifiConfig" }
      [] OTHER                -> {}

\* handles passed to vTaskSuspend in the case of state s
SuspendedIn(s) ==
    CASE s = "CONNECTING"     -> { "wifiConfig", "mqttConnect", "mqtt",
                                   "pressureReader", "button",
                                   "pressureTelemetry", "messageFormatter" }
      [] s = "CONNECTED_WIFI" -> { "wifiConfig", "mqttConnect", "button",
                                   "messageFormatter" }
      [] s = "CONFIG_MQTT"    -> { "wifiConfig", "mqtt", "pressureReader",
                                   "button", "pressureTelemetry",
                                   "messageFormatter" }
      [] s = "CONNECTED_MQTT" -> { "wifiConfig", "mqttConnect", "button" }
      [] s = "CONFIG_MODE"    -> { "wifiConnect", "mqttConnect", "mqtt",
                                   "pressureReader", "button",
                                   "pressureTelemetry", "messageFormatter" }
      [] s = "OTA_UPDATE"     -> { "wifiConnect", "mqttConnect", "mqtt",
                                   "pressureReader", "button",
                                   "pressureTelemetry" }
      [] s = "ERROR"          -> { "wifiConnect", "wifiConfig", "mqttConnect",
                                   "mqtt", "pressureReader", "button",
                                   "pressureTelemetry" }
      [] OTHER                -> {}

\* a variant in which the case of state s toggles the tasks it suspends
C30_ToggleStateActions(s, susp, ota) ==
    IF ActsIn(s, ota)
    THEN (susp \ SuspendedIn(s)) \cup (SuspendedIn(s) \ susp)
    ELSE susp

\* the suspended set after the case of state s has run on the set susp
ApplyStateActions(s, susp, ota) ==
    IF ActsIn(s, ota) THEN (susp \ ResumedIn(s)) \cup SuspendedIn(s) ELSE susp

\* handleStateActions: the case of the current state; in OTA_UPDATE the
\* creation of the OTA task succeeds or fails, and a failure sets ERROR;
\* in ERROR the task goes on to the 5000 ms delay before ESP.restart()
HandleStateActions ==
    /\ ctrlPc = "actions"
    /\ suspended' = ApplyStateActions(g_systemState, suspended, g_otaTaskHandle)
    /\ IF g_systemState = "OTA_UPDATE" /\ ~g_otaTaskHandle
       THEN \E created \in BOOLEAN :
                /\ g_otaTaskHandle' = created
                /\ g_systemState' = IF created THEN g_systemState ELSE "ERROR"
       ELSE UNCHANGED << g_otaTaskHandle, g_systemState >>
    /\ tickStartState' = g_systemState'
    /\ UNCHANGED netVars
    /\ ctrlPc' = IF g_systemState = "ERROR" THEN "restartDelay" ELSE "delay"
    /\ event' = {}
    /\ UNCHANGED << notifyValue, produced, g_pressureEventQueue, mqttReached >>
    /\ UNCHANGED fmtVars
    /\ UNCHANGED sigVars

\* stateManagementTask: vTaskDelay(100 ms) ends, the next tick begins
StateManagementDelay ==
    /\ ctrlPc = "delay"
    /\ ctrlPc' = "wait"
    /\ UNCHANGED << g_systemState, notifyValue, event, suspended,
                    g_otaTaskHandle, tickStartState, netVars, produced, g_pressureEventQueue,
                    mqttReached >>
    /\ UNCHANGED fmtVars
    /\ UNCHANGED sigVars

----------------------------------------------------------------------------
(* Pressure events (PressureEvent) and the events the model feeds *)

Min(a, b) == IF a < b THEN a ELSE b

\* samples[0 .. n-1] of a detailed event: one sample every 10 ms
DetailedSamples(start, value, step, n) ==
    [ i \in 1..n |-> [ timestamp |-> start + 10 * i,
                       filteredValue |-> value + step * i ] ]

\* a stable period as finalizeStablePeriod builds it: start value = end
\* value = average, trigger TIMEOUT, no detailed samples
StableEvent ==
    [ startTimestamp |-> 1000000000, endTimestamp |-> 1000002000,
      type |-> "STABLE", startValue |-> 5000000, endValue |-> 5000000,
      sampleCount |-> 201, triggerReason |-> "TIMEOUT",
      hasDetailedSamples |-> FALSE, samples |-> << >> ]

\* a changing period with n detailed samples, classified RISING
RisingEvent(n) ==
    [ startTimestamp |-> 1000003000, endTimestamp |-> 1000003000 + 10 * n,
      type |-> "RISING", startValue |-> 3000000,
      endValue |-> 3000000 + 10000 * n,
      sampleCount |-> n, triggerReason |-> "DERIVATIVE_RISING",
      hasDetailedSamples |-> TRUE,
      samples |-> DetailedSamples(1000003000, 3000000, 10000, n) ]

\* events finalized by the Signal Processor in the lifecycle specification
LifecycleEvents == { StableEvent }

\* events finalized by the Signal Processor in the batcher specification:
\* a stable period, a change at the sample cap of the JSON samples array,
\* and a change at the capacity of the sample array
BatchEvents ==
    { StableEvent, RisingEvent(JSON_SAMPLES_CAP), RisingEvent(MAX_SAMPLES_PER_EVENT) }

----------------------------------------------------------------------------
(* Message Batcher: serialization *)

getEventTypeString(type) ==
    CASE type = "STABLE"      -> "stable"
      [] type = "RISING"      -> "rising"
      [] type = "FALLING"     -> "falling"
      [] type = "OSCILLATION" -> "oscillation"
      [] OTHER                -> "unknown"

getTriggerReasonString(reason) ==
    CASE reason = "DERIVATIVE_RISING"  -> "derivative_rising"
      [] reason = "DERIVATIVE_FALLING" -> "derivative_falling"
      [] reason = "TIMEOUT"            -> "timeout"
      [] reason = "BUFFER_FULL"        -> "buffer_full"
      [] OTHER                         -> "unknown"

\* characters of the decimal text of the unsigned integer n
RECURSIVE Digits(_)
Digits(n) == IF n < 10 THEN 1 ELSE 1 + Digits(n \div 10)

\* characters of a comma-separated list whose elements have the lengths lens
RECURSIVE JoinedLen(_)
JoinedLen(lens) ==
    IF lens = << >> THEN 0
    ELSE Head(lens) + (IF Len(lens) > 1 THEN 1 ELSE 0) + JoinedLen(Tail(lens))

\* one element of the samples array: [timestamp,filteredValue]
SampleJsonLen(sm) ==
    Len("[") + Digits(sm.timestamp) + Len(",") + Digits(sm.filteredValue) + Len("]")

\* the samples formatEventToJson writes for event e (none for a STABLE event,
\* for an event without detailed samples, or above the cap)
WrittenSamples(e) ==
    IF e.type # "STABLE" /\ e.hasDetailedSamples /\ e.sampleCount <= JSON_SAMPLES_CAP
    THEN SubSeq(e.samples, 1, Min(e.sampleCount, MAX_SAMPLES_PER_EVENT))
    ELSE << >>

\* a variant that creates the "samples" member whatever the sample count
C27_WritesSamplesAlways(e) == e.type # "STABLE" /\ e.hasDetailedSamples

\* whether formatEventToJson creates the "samples" member for event e
WritesSamples(e) ==
    e.type # "STABLE" /\ e.hasDetailedSamples /\ e.sampleCount <= JSON_SAMPLES_CAP

\* characters of the JSON object formatEventToJson builds for event e
EventJsonLen(e) ==
    Len("{\"type\":\"") + Len(getEventTypeString(e.type)) + Len("\"")
    + Len(",\"startTimestamp\":") + Digits(e.startTimestamp)
    + Len(",\"endTimestamp\":") + Digits(e.endTimestamp)
    + Len(",\"sampleCount\":") + Digits(e.sampleCount)
    + Len(",\"duration_ms\":") + Digits(e.endTimestamp - e.startTimestamp)
    + (IF e.type = "STABLE"
       THEN Len(",\"pressure\":") + Digits((e.startValue + e.endValue) \div 2)
       ELSE Len(",\"startValue\":") + Digits(e.startValue)
            + Len(",\"endValue\":") + Digits(e.endValue)
            + Len(",\"triggerReason\":\"")
            + Len(getTriggerReasonString(e.triggerReason)) + Len("\"")
            + (IF WritesSamples(e)
               THEN Len(",\"samples\":[")
                    + JoinedLen([ i \in 1..Len(WrittenSamples(e)) |->
                                   SampleJsonLen(WrittenSamples(e)[i]) ]) + Len("]")
               ELSE 0))
    + Len("}")

\* String deviceId = getDeviceId(): a 12-character identifier
DeviceId == "A0B1C2D3E4F5"

\* values of millis() written as sentTimestamp: the widest 32-bit value held
SentTimestamps == { 2147483647 }

\* characters of the document built for the batch: sensor_id, sentTimestamp
\* and the events array (the document is taken to hold every member added)
JsonDocLen(batch, sent) ==
    Len("{\"sensor_id\":\"") + Len(DeviceId) + Len("\"")
    + Len(",\"sentTimestamp\":") + Digits(sent)
    + Len(",\"events\":[") + JoinedLen([ i \in 1..Len(batch) |-> EventJsonLen(batch[i]) ]) + Len("]}")

\* serializeJson(doc, buffer, size) with no limit on the output
SerializeJsonUnbounded(batch, sent) == JsonDocLen(batch, sent)

\* size_t jsonSize = serializeJson(doc, mqttMsg.payload, sizeof(mqttMsg.payload)):
\* at most sizeof(payload) characters are written
SerializeJson(batch, sent) == Min(JsonDocLen(batch, sent), PAYLOAD_SIZE)

\* estimatedJsonSize of calculateOptimalBatchSize after events[0 .. k-1]
EstimatedJsonSize(events, k) ==
    LET bytes(e) == IF e.type = "STABLE" THEN 150
                    ELSE 200 + (IF e.hasDetailedSamples THEN e.sampleCount * 25 ELSE 0)
        sum[i \in 0..k] == IF i = 0 THEN 200 ELSE sum[i - 1] + bytes(events[i])
    IN  sum[k]

\* calculateOptimalBatchSize(events, eventCount): the index of the first
\* event with which the estimate passes the limit, or eventCount
calculateOptimalBatchSize(events) ==
    LET over == { i \in 1..Len(events) : EstimatedJsonSize(events, i) > ESTIMATE_LIMIT }
    IN  IF over = {} THEN Len(events)
        ELSE (CHOOSE i \in over : \A j \in over : i <= j) - 1

\* a variant that fills the events array from the last event to the first
C22_MessageEventsReversed(batch) ==
    [ i \in 1..Len(batch) |-> batch[Len(batch) + 1 - i] ]

\* the events sendEventBatchToMqtt puts into the document: the loop runs
\* over all batchEventCount events
MessageEvents(batch) == batch

----------------------------------------------------------------------------
(* Message Batcher: messageFormatterTask *)

\* a variant of the safety check that lets the loop run in every state
C3_GateAlwaysOpen(s) == TRUE

\* the safety check at the top of the loop: process only in CONNECTED_MQTT
FormatterGateOpen(s) == s = "CONNECTED_MQTT"

\* getSystemState() and the test on it, then currentTime = millis():
\* either vTaskDelay(1000 ms) and continue, or on to the drain loop
FormatterGate ==
    /\ CanRun("messageFormatter")
    /\ fmtPc = "check"
    /\ IF FormatterGateOpen(g_systemState)
       THEN fmtPc' = "drain" /\ fmtElapsed' = batchAge
       ELSE fmtPc' = "gateDelay" /\ UNCHANGED fmtElapsed
    /\ UNCHANGED << batchAge, eventBatchBuffer, g_mqttQueue, jsonErrors,
                    g_pressureEventQueue, produced, mqttReached >>
    /\ UNCHANGED ctrlVars
    /\ UNCHANGED sigVars

\* one successful xQueueReceive(g_pressureEventQueue, &event, 0): the event
\* goes into the batch buffer, or is dropped when the buffer is full
FormatterReceive ==
    /\ CanRun("messageFormatter")
    /\ fmtPc = "drain"
    /\ g_pressureEventQueue # << >>
    /\ g_pressureEventQueue' = Tail(g_pressureEventQueue)
    /\ eventBatchBuffer' =
          IF Len(eventBatchBuffer) < MAX_EVENTS_PER_MESSAGE
          THEN Append(eventBatchBuffer, Head(g_pressureEventQueue))
          ELSE eventBatchBuffer
    /\ UNCHANGED << fmtPc, fmtElapsed, batchAge, g_mqttQueue, jsonErrors,
                    produced, mqttReached >>
    /\ UNCHANGED ctrlVars
    /\ UNCHANGED sigVars

\* xQueueReceive finds Queue B empty: the drain loop ends
FormatterDrained ==
    /\ CanRun("messageFormatter")
    /\ fmtPc = "drain"
    /\ g_pressureEventQueue = << >>
    /\ fmtPc' = "flush"
    /\ UNCHANGED << fmtElapsed, batchAge, eventBatchBuffer, g_mqttQueue,
                    jsonErrors, g_pressureEventQueue, produced, mqttReached >>
    /\ UNCHANGED ctrlVars
    /\ UNCHANGED sigVars

\* sendEventBatchToMqtt with a non-empty batch: serialization fails
\* (jsonSize == 0: the counter is raised and the function returns), or the
\* message is handed to Queue C (dropped when the queue is full) and the
\* batch is reset
SendEventBatchToMqtt ==
    \/ /\ jsonErrors < MaxJsonErrors
       /\ jsonErrors' = jsonErrors + 1
       /\ UNCHANGED << eventBatchBuffer, batchAge, g_mqttQueue >>
    \/ /\ \E sent \in SentTimestamps :
            LET msg == [ events |-> MessageEvents(eventBatchBuffer),
                         payloadLen |-> SerializeJson(MessageEvents(eventBatchBuffer), sent) ]
            IN  g_mqttQueue' = IF Len(g_mqttQueue) < MQTT_QUEUE_SIZE
                               THEN Append(g_mqttQueue, msg)
                               ELSE g_mqttQueue
       /\ eventBatchBuffer' = << >>
       /\ batchAge' = 0
       /\ UNCHANGED jsonErrors

\* the flush test of the tick, then vTaskDelayUntil
FormatterFlush ==
    /\ CanRun("messageFormatter")
    /\ fmtPc = "flush"
    /\ LET timeoutReached == fmtElapsed >= FORMATTER_SEND_TIMEOUT_MS
           batchFull == Len(eventBatchBuffer) >= MAX_EVENTS_PER_MESSAGE
       IN  IF (timeoutReached \/ batchFull) /\ Len(eventBatchBuffer) > 0
           THEN SendEventBatchToMqtt
           ELSE UNCHANGED << eventBatchBuffer, batchAge, g_mqttQueue, jsonErrors >>
    /\ fmtPc' = "wait"
    /\ fmtElapsed' = 0
    /\ UNCHANGED << g_pressureEventQueue, produced, mqttReached >>
    /\ UNCHANGED ctrlVars
    /\ UNCHANGED sigVars

\* the delay of the task ends (or a resume ends it): next iteration
FormatterWake ==
    /\ CanRun("messageFormatter")
    /\ fmtPc \in { "wait", "gateDelay" }
    /\ fmtPc' = "check"
    /\ UNCHANGED << fmtElapsed, batchAge, eventBatchBuffer, g_mqttQueue,
                    jsonErrors, g_pressureEventQueue, produced, mqttReached >>
    /\ UNCHANGED ctrlVars
    /\ UNCHANGED sigVars

----------------------------------------------------------------------------
(* Around the batcher: the Signal Processor, the publisher, the clock *)

\* the Signal Processor finalizes event e: xQueueSend(g_pressureEventQueue,
\* &event, 0); on a full queue the event is dropped and the controller is
\* notified
ProcessorFinalize(e, max) ==
    /\ CanRun("pressureTelemetry")
    /\ produced < max
    /\ produced' = produced + 1
    /\ IF Len(g_pressureEventQueue) < PRESSURE_EVENT_QUEUE_SIZE
       THEN /\ g_pressureEventQueue' = Append(g_pressureEventQueue, e)
            /\ telemetryFailing' = FALSE
            /\ UNCHANGED << notifyValue, eventsQueueFull, queueFullNotified >>
       ELSE /\ UNCHANGED g_pressureEventQueue
            /\ eventsQueueFull' = eventsQueueFull + 1
            /\ queueFullNotified' = queueFullNotified + 1
            /\ telemetryFailing' = TRUE
            /\ notifyValue' = IF ctrlPc = "boot" THEN notifyValue
                              ELSE notifyValue \cup { "PRESSURE_QUEUE_FULL" }
    /\ UNCHANGED << g_systemState, event, ctrlPc, suspended, g_otaTaskHandle, tickStartState, netVars,
                    mqttReached >>
    /\ UNCHANGED fmtVars
    /\ UNCHANGED procVars
    /\ UNCHANGED readerVars

\* mqttPublishTask takes a message from Queue C
MqttReceive ==
    /\ CanRun("mqtt")
    /\ g_mqttQueue # << >>
    /\ g_mqttQueue' = Tail(g_mqttQueue)
    /\ UNCHANGED << fmtPc, fmtElapsed, batchAge, eventBatchBuffer, jsonErrors,
                    g_pressureEventQueue, produced, mqttReached >>
    /\ UNCHANGED ctrlVars
    /\ UNCHANGED sigVars

\* millis() advances by one clock step; the run of the state manager from
\* the drain to the end of the actions is shorter than a step
ClockTick ==
    /\ ~CtrlRunning
    /\ batchAge < FORMATTER_SEND_TIMEOUT_MS
    /\ batchAge' = Min(batchAge + ClockStepMs, FORMATTER_SEND_TIMEOUT_MS)
    /\ UNCHANGED << fmtPc, fmtElapsed, eventBatchBuffer, g_mqttQueue, jsonErrors,
                    g_pressureEventQueue, produced, mqttReached >>
    /\ UNCHANGED ctrlVars
    /\ UNCHANGED sigVars

----------------------------------------------------------------------------
(* Signal Processor: parameters and the sensor signal *)

SENSOR_SAMPLE_RATE_HZ == 100
SENSOR_SAMPLE_INTERVAL_MS == 1000 \div SENSOR_SAMPLE_RATE_HZ
DERIVATIVE_WINDOW_SIZE == 50
DERIVATIVE_THRESHOLD_PER_SEC == 120000
DERIVATIVE_THRESHOLD == DERIVATIVE_THRESHOLD_PER_SEC \div SENSOR_SAMPLE_RATE_HZ
MIN_EVENT_DURATION_MS == 50
MIN_STABLE_DURATION_MS == 2000
MAX_STABLE_EVENT_DURATION_MS == 60000
MAX_CHANGING_EVENT_DURATION_MS == 3000
MIN_STABLE_SAMPLES == 50

\* the float coefficients 0.1f, 0.05f, 0.1f, 0.8f and 0.3f in thousandths
EPA_ALPHA_PRIMARY == 100
EPA_ALPHA_SECONDARY == 50
DERIVATIVE_FILTER_ALPHA == 100
EVENT_HYSTERESIS_FACTOR == 800
STABLE_CLASS_FACTOR == 300

\* the float variables of the filter chain are kept in fixed point, in
\* hundredths of a raw unit
FixedScale == 100

\* pressure_telemetry.cpp tests MAX_INTERVAL_TIMEOUT_MS for the stable and
\* for the changing timeout; no file of the repository defines the macro.
\* The build takes one of the two maximum durations of signal_parameters.h.
IntervalTimeouts == { MAX_CHANGING_EVENT_DURATION_MS, MAX_STABLE_EVENT_DURATION_MS }

\* readings of one signal the Signal Processor is fed
ProfileLength == 450
\* events waiting in Queue B while the Message Batcher is suspended
QueueBBacklog == 9

\* the signals: a constant, a rise and a fall above the threshold, a rise
\* that slows down into the hysteresis band and stops, a pulse with every
\* fifth reading invalid, a steep rise that turns into a steep fall, a short
\* spike, a rise and a constant of which few readings are valid (the
\* invalid readings in between are left out), and a ramp of one second after
\* a constant lead, once with every reading valid and once with the validity
\* the Sample Source gives its readings
SignalProfiles ==
    { "constant", "rise", "fall", "riseHold", "pulse", "reversal", "spike",
      "sparseRise", "sparseConstant", "ramp", "rampValidated" }

RampSignals == { "ramp", "rampValidated" }

BaseValue == 5000000

\* the ramp: RampLead readings at RampLow, then one second of readings that
\* rise to RampHigh, then RampHigh
RampLow == 3000000
RampHigh == 4000000
RampLead == 60
RampReadings == SENSOR_SAMPLE_RATE_HZ
RampValue(i) ==
    IF i <= RampLead THEN RampLow
    ELSE IF i <= RampLead + RampReadings
         THEN RampLow + ((RampHigh - RampLow) \div RampReadings) * (i - RampLead)
         ELSE RampHigh

\* milliseconds between two readings of the signal
ProfilePeriod(p) ==
    CASE p = "sparseRise"     -> 10 * SENSOR_SAMPLE_INTERVAL_MS
      [] p = "sparseConstant" -> 200 * SENSOR_SAMPLE_INTERVAL_MS
      [] OTHER                -> SENSOR_SAMPLE_INTERVAL_MS

\* the raw value of reading i
ProfileValue(p, i) ==
    CASE p = "constant"       -> BaseValue
      [] p = "rise"           -> BaseValue + 30 * i
      [] p = "fall"           -> BaseValue - 30 * i
      [] p = "riseHold"       -> IF i <= 120 THEN BaseValue + 30 * i
                                 ELSE IF i <= 318 THEN BaseValue + 3600 + 11 * (i - 120)
                                 ELSE BaseValue + 3600 + 2178
      [] p = "pulse"          -> IF i <= 80 THEN BaseValue + 30 * i
                                 ELSE IF i <= 160 THEN BaseValue + 2400 - 30 * (i - 80)
                                 ELSE BaseValue
      [] p = "reversal"       -> IF i <= 100 THEN BaseValue + 1500 * i
                                 ELSE IF i <= 200 THEN BaseValue + 150000 - 1500 * (i - 100)
                                 ELSE BaseValue
      [] p = "spike"          -> IF i <= 3 THEN BaseValue + 2200 * i
                                 ELSE IF i <= 9 THEN BaseValue + 6600 - 2200 * (i - 3)
                                 ELSE BaseValue - 6600
      [] p = "sparseRise"     -> BaseValue + 300 * i
      [] p = "sparseConstant" -> BaseValue
      [] p \in RampSignals    -> RampValue(i)

\* PressureReading i of signal p as the Sample Source queues it
Reading(p, i) ==
    [ timestamp |-> i * ProfilePeriod(p),
      rawValue  |-> ProfileValue(p, i),
      isValid   |-> ~(p = "pulse" /\ i % 5 = 0) ]

----------------------------------------------------------------------------
(* Signal Processor: filters, derivative, state machine *)

Abs(x) == IF x < 0 THEN -x ELSE x

\* (a * b) / c rounded down, computed without a product above a * c
MulDiv(a, b, c) == (a \div c) * b + ((a % c) * b) \div c

\* alpha * newValue + (1 - alpha) * prevFiltered, alpha in thousandths
applyEPAFilter(newValue, prevFiltered, alpha) ==
    prevFiltered + MulDiv(newValue - prevFiltered, alpha, 1000)

\* memset(&derivativeWindow, 0, sizeof(DerivativeWindow))
ZeroWindow ==
    [ values |-> [ i \in 0..(DERIVATIVE_WINDOW_SIZE - 1) |-> 0 ],
      timestamps |-> [ i \in 0..(DERIVATIVE_WINDOW_SIZE - 1) |-> 0 ],
      writeIndex |-> 0, count |-> 0 ]

\* the entry is written at writeIndex, which moves on circularly; count stops
\* at DERIVATIVE_WINDOW_SIZE
addToDerivativeWindow(window, value, timestamp) ==
    [ values |-> [ window.values EXCEPT ![window.writeIndex] = value ],
      timestamps |-> [ window.timestamps EXCEPT ![window.writeIndex] = timestamp ],
      writeIndex |-> (window.writeIndex + 1) % DERIVATIVE_WINDOW_SIZE,
      count |-> IF window.count < DERIVATIVE_WINDOW_SIZE THEN window.count + 1
                ELSE window.count ]

\* units per second between two entries
Slope(oldValue, oldTimestamp, newValue, newTimestamp) ==
    IF newTimestamp - oldTimestamp = 0 THEN 0
    ELSE MulDiv(newValue - oldValue, 1000, newTimestamp - oldTimestamp)

\* a variant that takes the entry at index 0 for the oldest
C35_OldestAtIndexZero(window) ==
    IF window.count < 2 THEN 0
    ELSE LET newestIndex == (window.writeIndex + DERIVATIVE_WINDOW_SIZE - 1)
                                % DERIVATIVE_WINDOW_SIZE
         IN  Slope(window.values[0], window.timestamps[0],
                   window.values[newestIndex], window.timestamps[newestIndex])

\* units per second between the entries at oldestIndex and at newestIndex
calculateDerivative(window) ==
    IF window.count < 2 THEN 0
    ELSE LET oldestIndex == (window.writeIndex + DERIVATIVE_WINDOW_SIZE - window.count)
                                % DERIVATIVE_WINDOW_SIZE
             newestIndex == (window.writeIndex + DERIVATIVE_WINDOW_SIZE - 1)
                                % DERIVATIVE_WINDOW_SIZE
         IN  Slope(window.values[oldestIndex], window.timestamps[oldestIndex],
                   window.values[newestIndex], window.timestamps[newestIndex])

\* the pairs pushed so far with one more, the last DERIVATIVE_WINDOW_SIZE
LastPushed(pushed, value, timestamp) ==
    LET w == Append(pushed, [ value |-> value, timestamp |-> timestamp ])
    IN  IF Len(w) > DERIVATIVE_WINDOW_SIZE THEN Tail(w) ELSE w

\* DERIVATIVE_THRESHOLD and DERIVATIVE_THRESHOLD * EVENT_HYSTERESIS_FACTOR
\* on the scale of the derivative
EnterThreshold == DERIVATIVE_THRESHOLD * FixedScale
ExitThreshold == (DERIVATIVE_THRESHOLD * FixedScale * EVENT_HYSTERESIS_FACTOR) \div 1000

C14_ExitWithoutHysteresis(machine, currentDerivative, currentTime) ==
    IF machine.currentState = "STABLE"
    THEN IF Abs(currentDerivative) > EnterThreshold
         THEN [ currentState |-> "CHANGING", stateStartTime |-> currentTime ]
         ELSE machine
    ELSE IF /\ Abs(currentDerivative) < EnterThreshold
            /\ currentTime - machine.stateStartTime >= MIN_EVENT_DURATION_MS
         THEN [ currentState |-> "STABLE", stateStartTime |-> currentTime ]
         ELSE machine

\* the state machine after the sample; the state changed iff currentState
\* differs
updateSignalStateMachine(machine, currentDerivative, currentTime) ==
    IF machine.currentState = "STABLE"
    THEN IF Abs(currentDerivative) > EnterThreshold
         THEN [ currentState |-> "CHANGING", stateStartTime |-> currentTime ]
         ELSE machine
    ELSE IF /\ Abs(currentDerivative) < ExitThreshold
            /\ currentTime - machine.stateStartTime >= MIN_EVENT_DURATION_MS
         THEN [ currentState |-> "STABLE", stateStartTime |-> currentTime ]
         ELSE machine

\* DERIVATIVE_THRESHOLD * 0.3f on the scale of the derivative
StableClassThreshold == (DERIVATIVE_THRESHOLD * FixedScale * STABLE_CLASS_FACTOR) \div 1000

C18_ClassifyByChangeOnly(avgDerivative, startValue, endValue) ==
    LET pressureChange == endValue - startValue
    IN  IF pressureChange > 0 THEN "RISING"
        ELSE IF pressureChange < 0 THEN "FALLING"
        ELSE "STABLE"

classifyEvent(avgDerivative, startValue, endValue) ==
    LET pressureChange == endValue - startValue
    IN  IF Abs(avgDerivative) < StableClassThreshold THEN "STABLE"
        ELSE IF pressureChange > 0 /\ avgDerivative > 0 THEN "RISING"
        ELSE IF pressureChange < 0 /\ avgDerivative < 0 THEN "FALLING"
        ELSE "OSCILLATION"

----------------------------------------------------------------------------
(* Signal Processor: periods and events *)

\* a variant of the cleared accumulator that keeps one sample
C29_AccumulatorKeepsSample ==
    [ minValue |-> BaseValue, maxValue |-> BaseValue, sumValues |-> BaseValue,
      sampleCount |-> 1, periodStartTime |-> 0 ]

\* memset(&stableAccumulator, 0, ...), memset(&currentEvent, 0, ...)
ZeroAccumulator ==
    [ minValue |-> 0, maxValue |-> 0, sumValues |-> 0, sampleCount |-> 0,
      periodStartTime |-> 0 ]

ZeroEvent ==
    [ startTimestamp |-> 0, endTimestamp |-> 0, type |-> "STABLE",
      startValue |-> 0, endValue |-> 0, sampleCount |-> 0,
      triggerReason |-> "DERIVATIVE_RISING", hasDetailedSamples |-> FALSE,
      samples |-> << >> ]

Max(a, b) == IF a > b THEN a ELSE b

\* a variant that leaves periodStartTime as the cleared accumulator has it
C33_PeriodStartNotSet(accumulator, filteredValue, timestamp) ==
    [ minValue |-> filteredValue, maxValue |-> filteredValue,
      sumValues |-> accumulator.sumValues + filteredValue,
      sampleCount |-> accumulator.sampleCount + 1,
      periodStartTime |-> accumulator.periodStartTime ]

\* the accumulator after the sample
processStablePeriod(accumulator, filteredValue, timestamp) ==
    LET first == accumulator.sampleCount = 0
        minValue == IF first THEN filteredValue ELSE accumulator.minValue
        maxValue == IF first THEN filteredValue ELSE accumulator.maxValue
        sumValues == IF first THEN 0 ELSE accumulator.sumValues
    IN  [ minValue |-> Min(minValue, filteredValue),
          maxValue |-> Max(maxValue, filteredValue),
          sumValues |-> sumValues + filteredValue,
          sampleCount |-> accumulator.sampleCount + 1,
          periodStartTime |-> IF first THEN timestamp
                              ELSE accumulator.periodStartTime ]

\* the value processStablePeriod returns, on the accumulator it has updated
StableShouldFinalize(accumulator, timestamp, timeout) ==
    LET periodDuration == timestamp - accumulator.periodStartTime
    IN  \/ /\ periodDuration >= MIN_STABLE_DURATION_MS
           /\ accumulator.sampleCount >= MIN_STABLE_SAMPLES
        \/ periodDuration >= timeout

\* the event finalizeStablePeriod builds; sampleCount is a uint16_t field
\* assigned from the uint32_t count
StablePeriodEvent(accumulator, endTimestamp) ==
    LET average == accumulator.sumValues \div accumulator.sampleCount
    IN  [ startTimestamp |-> accumulator.periodStartTime,
          endTimestamp |-> endTimestamp, type |-> "STABLE",
          startValue |-> average, endValue |-> average,
          sampleCount |-> accumulator.sampleCount % 65536,
          triggerReason |-> "TIMEOUT", hasDetailedSamples |-> FALSE,
          samples |-> << >> ]

\* a variant that names the falling trigger whatever the derivative
C31_TriggerAlwaysFalling(derivative) == "DERIVATIVE_FALLING"

\* the trigger reason processChangingPeriod gives an event at its first sample
TriggerReasonOf(derivative) ==
    IF derivative > 0 THEN "DERIVATIVE_RISING" ELSE "DERIVATIVE_FALLING"

\* the event after the sample
processChangingPeriod(ev, filteredValue, timestamp, derivative) ==
    LET first == ev.sampleCount = 0
        sample == [ timestamp |-> timestamp, filteredValue |-> filteredValue,
                    derivative |-> derivative ]
    IN  [ startTimestamp |-> IF first THEN timestamp ELSE ev.startTimestamp,
          endTimestamp |-> timestamp,
          type |-> ev.type,
          startValue |-> IF first THEN filteredValue ELSE ev.startValue,
          endValue |-> filteredValue,
          sampleCount |-> ev.sampleCount + 1,
          triggerReason |-> IF first THEN TriggerReasonOf(derivative)
                            ELSE ev.triggerReason,
          hasDetailedSamples |-> first \/ ev.hasDetailedSamples,
          samples |-> IF ev.sampleCount < MAX_SAMPLES_PER_EVENT
                      THEN Append(ev.samples, sample) ELSE ev.samples ]

C16_ChangingClosedAtCapacityOnly(ev, timestamp, timeout) ==
    ev.sampleCount >= MAX_SAMPLES_PER_EVENT

\* the value processChangingPeriod returns, on the event it has updated
ChangingShouldFinalize(ev, timestamp, timeout) ==
    \/ ev.sampleCount >= MAX_SAMPLES_PER_EVENT
    \/ ev.endTimestamp - ev.startTimestamp >= timeout

RECURSIVE SumDerivatives(_, _)
SumDerivatives(samples, n) ==
    IF n = 0 THEN 0 ELSE samples[n].derivative + SumDerivatives(samples, n - 1)

\* the sum of the derivatives of the first n samples divided by n; the sum
\* is taken over the quotients and over the remainders of the division by
\* n, which gives the quotient of the whole sum without ever holding it
MeanOfDerivatives(samples, n) ==
    LET quotients == [ j \in 1..n |-> [ derivative |-> samples[j].derivative \div n ] ]
        remainders == [ j \in 1..n |-> [ derivative |-> samples[j].derivative % n ] ]
    IN  SumDerivatives(quotients, n) + SumDerivatives(remainders, n) \div n

\* the mean of the derivatives of the stored samples
AverageDerivative(ev) ==
    IF ev.hasDetailedSamples /\ ev.sampleCount > 1
    THEN MeanOfDerivatives(ev.samples, Min(ev.sampleCount, MAX_SAMPLES_PER_EVENT))
    ELSE 0

\* the event finalizeChangingEvent sends
ChangingEvent(ev) ==
    [ ev EXCEPT !.type = classifyEvent(AverageDerivative(ev), ev.startValue,
                                       ev.endValue) ]

----------------------------------------------------------------------------
(* Sample Source: bus read, fault recovery and validation *)

RAW_VALUE_MIN == 10000
RAW_VALUE_MAX == 16000000
MAX_PRESSURE_CHANGE_PER_SECOND == 500000
MAX_CHANGE_PER_SAMPLE == MAX_PRESSURE_CHANGE_PER_SECOND \div SENSOR_SAMPLE_RATE_HZ
MAX_CONSECUTIVE_INVALID == 20
I2C_MAX_ERRORS_BEFORE_RESET == 10

\* consecutive readings at one level that are followed
MaxLevelRun == 22
\* consecutive failed reads that are followed
MaxFailedRun == 21

\* levels of the sensor: a baseline, a level at the largest change one
\* sample may show, and a level one unit beyond that change from the second
SensorLevels ==
    { BaseValue, BaseValue + MAX_CHANGE_PER_SAMPLE,
      BaseValue + 2 * MAX_CHANGE_PER_SAMPLE + 1 }

\* what a bus transaction gives: the result of endTransmission, the bytes
\* available after requestFrom, and the 24-bit value of the three bytes
ReadOutcomes ==
    { [ endTxResult |-> 0, avail |-> 3, value |-> v ] : v \in SensorLevels }
    \cup { [ endTxResult |-> 2, avail |-> 0, value |-> 0 ],
           [ endTxResult |-> 0, avail |-> 0, value |-> 0 ] }

\* a variant that never accepts a new baseline
C23_ValidateWithoutRecovery(rawValue, last, first, count) ==
    IF rawValue <= RAW_VALUE_MIN \/ rawValue >= RAW_VALUE_MAX
    THEN [ isValid |-> FALSE, lastValidRawValue |-> last, firstSample |-> first,
           consecutiveInvalidCount |-> (count + 1) % 256, accepted |-> FALSE ]
    ELSE IF ~first /\ Abs(rawValue - last) > MAX_CHANGE_PER_SAMPLE
         THEN [ isValid |-> FALSE, lastValidRawValue |-> last, firstSample |-> first,
                consecutiveInvalidCount |-> (count + 1) % 256, accepted |-> FALSE ]
         ELSE [ isValid |-> TRUE, lastValidRawValue |-> rawValue,
                firstSample |-> FALSE, consecutiveInvalidCount |-> 0,
                accepted |-> FALSE ]

\* validatePressureReading(rawValue) on the statics lastValidRawValue,
\* firstSample and consecutiveInvalidCount (uint8_t): the result and the
\* statics after the call; accepted: the branch "accepting new baseline"
validatePressureReading(rawValue, last, first, count) ==
    LET counted == (count + 1) % 256
    IN  IF rawValue <= RAW_VALUE_MIN \/ rawValue >= RAW_VALUE_MAX
        THEN IF counted >= MAX_CONSECUTIVE_INVALID
             THEN [ isValid |-> FALSE, lastValidRawValue |-> last,
                    firstSample |-> TRUE, consecutiveInvalidCount |-> 0,
                    accepted |-> FALSE ]
             ELSE [ isValid |-> FALSE, lastValidRawValue |-> last,
                    firstSample |-> first, consecutiveInvalidCount |-> counted,
                    accepted |-> FALSE ]
        ELSE IF ~first /\ Abs(rawValue - last) > MAX_CHANGE_PER_SAMPLE
             THEN IF counted >= MAX_CONSECUTIVE_INVALID
                  THEN [ isValid |-> TRUE, lastValidRawValue |-> rawValue,
                         firstSample |-> FALSE, consecutiveInvalidCount |-> 0,
                         accepted |-> TRUE ]
                  ELSE [ isValid |-> FALSE, lastValidRawValue |-> last,
                         firstSample |-> first,
                         consecutiveInvalidCount |-> counted,
                         accepted |-> FALSE ]
             ELSE [ isValid |-> TRUE, lastValidRawValue |-> rawValue,
                    firstSample |-> FALSE, consecutiveInvalidCount |-> 0,
                    accepted |-> FALSE ]

\* the verdict of validatePressureReading on the next reading of the signal,
\* with the statics as the readings before have left them
NextVerdict ==
    validatePressureReading(ProfileValue(signalInput, sampleIndex + 1),
                            lastValidRawValue, firstSample,
                            consecutiveInvalidCount)

\* the next reading as pressureReaderTask queues it: isValid is the result
\* of validatePressureReading where the signal passes through it
NextReading ==
    IF signalInput = "rampValidated"
    THEN [ Reading(signalInput, sampleIndex + 1) EXCEPT !.isValid = NextVerdict.isValid ]
    ELSE Reading(signalInput, sampleIndex + 1)

\* a variant that reinitializes the bus at the first failed read
C24_ReinitAtFirstError(errors) == errors >= 1

\* the test of readRawPressure after a failed read
NeedsReinit(errors) == errors >= I2C_MAX_ERRORS_BEFORE_RESET

\* the reading would fail the variation test against the baseline
FarFromBaseline(rawValue) ==
    /\ rawValue > RAW_VALUE_MIN
    /\ rawValue < RAW_VALUE_MAX
    /\ ~firstSample
    /\ Abs(rawValue - lastValidRawValue) > MAX_CHANGE_PER_SAMPLE

\* the statics of pressure_reader.cpp after initializePressureReader, the
\* task at the top of its loop
ReaderInitial ==
    /\ readerPc = "read"
    /\ g_i2cMutex = "free"
    /\ readerReading = [ rawValue |-> 0, isValid |-> FALSE ]
    /\ success = FALSE
    /\ lastValidRawValue = 0
    /\ firstSample = TRUE
    /\ consecutiveInvalidCount = 0
    /\ i2cConsecutiveErrors = 0
    /\ levelRun = [ level |-> 0, length |-> 0, resets |-> 0, startInvalid |-> -1 ]
    /\ busRun = [ failed |-> 0, recoveries |-> 0, notified |-> 0 ]

\* the same after a restart
ReaderRestart ==
    /\ readerPc' = "read"
    /\ g_i2cMutex' = "free"
    /\ readerReading' = [ rawValue |-> 0, isValid |-> FALSE ]
    /\ success' = FALSE
    /\ lastValidRawValue' = 0
    /\ firstSample' = TRUE
    /\ consecutiveInvalidCount' = 0
    /\ i2cConsecutiveErrors' = 0
    /\ levelRun' = [ level |-> 0, length |-> 0, resets |-> 0, startInvalid |-> -1 ]
    /\ busRun' = [ failed |-> 0, recoveries |-> 0, notified |-> 0 ]

\* what the steps of the Sample Source leave alone
ReaderFrame ==
    /\ UNCHANGED << g_systemState, event, ctrlPc, suspended, g_otaTaskHandle, tickStartState, netVars,
                    g_pressureEventQueue, produced, mqttReached >>
    /\ UNCHANGED fmtVars
    /\ UNCHANGED procVars
    /\ UNCHANGED << eventsQueueFull, queueFullNotified, telemetryFailing >>
    /\ UNCHANGED << g_pressureQueue, queueFailCount, readerFailing, readerNotified >>

\* readRawPressure, xSemaphoreTake(g_i2cMutex, I2C_TIMEOUT_MS): the mutex
\* is taken, or the wait ends after 10 ms with the mutex still held by
\* another task and the read has failed
ReaderTake ==
    /\ CanRun("pressureReader")
    /\ readerPc = "read"
    /\ readerReading' = [ readerReading EXCEPT !.rawValue = 0 ]
    /\ success' = FALSE
    /\ IF g_i2cMutex = "free"
       THEN g_i2cMutex' = "pressureReader" /\ readerPc' = "bus"
       ELSE UNCHANGED g_i2cMutex /\ readerPc' = "recover"
    /\ UNCHANGED << lastValidRawValue, firstSample, consecutiveInvalidCount,
                    i2cConsecutiveErrors, levelRun, busRun, notifyValue >>
    /\ ReaderFrame

\* the transaction with the sensor under the mutex, then xSemaphoreGive
ReaderTransaction ==
    /\ CanRun("pressureReader")
    /\ readerPc = "bus"
    /\ \E o \in ReadOutcomes :
          LET ok == o.endTxResult = 0 /\ o.avail = 3
          IN  /\ ok /\ o.value = levelRun.level => levelRun.length < MaxLevelRun
              /\ ~ok => busRun.failed < MaxFailedRun
              /\ success' = ok
              /\ readerReading' = [ readerReading EXCEPT !.rawValue = IF ok THEN o.value ELSE 0 ]
    /\ g_i2cMutex' = "free"
    /\ readerPc' = "recover"
    /\ UNCHANGED << lastValidRawValue, firstSample, consecutiveInvalidCount,
                    i2cConsecutiveErrors, levelRun, busRun, notifyValue >>
    /\ ReaderFrame

\* the error recovery logic of readRawPressure: a successful read clears
\* i2cConsecutiveErrors, a failed one counts and may call reinitializeI2C,
\* which first notifies the controller
ReaderRecover ==
    /\ CanRun("pressureReader")
    /\ readerPc = "recover"
    /\ success \/ busRun.failed < MaxFailedRun
    /\ IF success
       THEN /\ i2cConsecutiveErrors' = 0
            /\ busRun' = [ failed |-> 0, recoveries |-> 0, notified |-> 0 ]
            /\ readerPc' = "validate"
            /\ UNCHANGED notifyValue
       ELSE /\ i2cConsecutiveErrors' = i2cConsecutiveErrors + 1
            /\ IF NeedsReinit(i2cConsecutiveErrors + 1)
               THEN /\ readerPc' = "reinit"
                    /\ busRun' = [ busRun EXCEPT !.failed = @ + 1, !.notified = @ + 1 ]
                    /\ notifyValue' = IF ctrlPc = "boot" THEN notifyValue
                                      ELSE notifyValue \cup { "I2C_ERROR_RECOVERY" }
               ELSE /\ readerPc' = "validate"
                    /\ busRun' = [ busRun EXCEPT !.failed = @ + 1 ]
                    /\ UNCHANGED notifyValue
    /\ UNCHANGED << g_i2cMutex, readerReading, success, lastValidRawValue, firstSample,
                    consecutiveInvalidCount, levelRun >>
    /\ ReaderFrame

\* reinitializeI2C from Wire.end() on: the bus is torn down, the task waits
\* 10 ms, the bus is set up again and the validation state is reset; back
\* in readRawPressure the error count is cleared
ReaderReinit ==
    /\ CanRun("pressureReader")
    /\ readerPc = "reinit"
    /\ firstSample' = TRUE
    /\ consecutiveInvalidCount' = 0
    /\ i2cConsecutiveErrors' = 0
    /\ busRun' = [ busRun EXCEPT !.recoveries = @ + 1 ]
    /\ readerPc' = "validate"
    /\ UNCHANGED << g_i2cMutex, readerReading, success, lastValidRawValue, levelRun,
                    notifyValue >>
    /\ ReaderFrame

\* reading.isValid = validatePressureReading(reading.rawValue); the reading
\* then goes to Queue A (ReaderSample) and the task waits for its period
ReaderValidate ==
    /\ CanRun("pressureReader")
    /\ readerPc = "validate"
    /\ LET v == validatePressureReading(readerReading.rawValue, lastValidRawValue,
                                        firstSample, consecutiveInvalidCount)
           resets == IF v.accepted THEN 1 ELSE 0
       IN  /\ readerReading' = [ readerReading EXCEPT !.isValid = v.isValid ]
           /\ lastValidRawValue' = v.lastValidRawValue
           /\ firstSample' = v.firstSample
           /\ consecutiveInvalidCount' = v.consecutiveInvalidCount
           /\ levelRun' =
                 IF readerReading.rawValue = levelRun.level /\ levelRun.length > 0
                 THEN [ levelRun EXCEPT !.length = @ + 1, !.resets = @ + resets ]
                 ELSE [ level |-> readerReading.rawValue, length |-> 1, resets |-> resets,
                        startInvalid |-> IF FarFromBaseline(readerReading.rawValue)
                                         THEN consecutiveInvalidCount ELSE -1 ]
    /\ readerPc' = "read"
    /\ UNCHANGED << g_i2cMutex, success, i2cConsecutiveErrors, busRun, notifyValue >>
    /\ ReaderFrame

\* another task of the firmware takes g_i2cMutex for a bus operation of
\* its own
OtherBusTake ==
    /\ g_i2cMutex = "free"
    /\ g_i2cMutex' = "other"
    /\ UNCHANGED << readerPc, readerReading, success, lastValidRawValue, firstSample,
                    consecutiveInvalidCount, i2cConsecutiveErrors, levelRun,
                    busRun, notifyValue >>
    /\ ReaderFrame

\* and gives it back
OtherBusGive ==
    /\ g_i2cMutex = "other"
    /\ g_i2cMutex' = "free"
    /\ UNCHANGED << readerPc, readerReading, success, lastValidRawValue, firstSample,
                    consecutiveInvalidCount, i2cConsecutiveErrors, levelRun,
                    busRun, notifyValue >>
    /\ ReaderFrame

----------------------------------------------------------------------------
(* Signal Processor: the task *)

C15_PeriodLeftWithFlip(accumulator, filteredValue, timestamp) ==
    processStablePeriod(accumulator, filteredValue, timestamp)

\* a variant that counts the flipping reading in the period it ends
C38_PeriodLeftCountsFlip(accumulator, filteredValue, timestamp) ==
    [ accumulator EXCEPT !.sampleCount = @ + 1 ]

\* the stable period finalized on the entry into CHANGING: the accumulator
\* as the readings before the flipping one left it
PeriodLeft(accumulator, filteredValue, timestamp) == accumulator

C19_QueueBWaitsForRoom(queue, events) == queue \o events

\* xQueueSend(g_pressureEventQueue, &event, 0) for the events of one reading,
\* in order: the queue afterwards
RECURSIVE QueueBAfter(_, _)
QueueBAfter(queue, events) ==
    IF events = << >> THEN queue
    ELSE QueueBAfter(IF Len(queue) < PRESSURE_EVENT_QUEUE_SIZE
                     THEN Append(queue, Head(events)) ELSE queue,
                     Tail(events))

\* the events of one reading with the result of their xQueueSend
RECURSIVE SendResults(_, _)
SendResults(queue, events) ==
    IF events = << >> THEN << >>
    ELSE LET sent == Len(queue) < PRESSURE_EVENT_QUEUE_SIZE
         IN  << [ event |-> Head(events), queued |-> sent ] >>
             \o SendResults(IF sent THEN Append(queue, Head(events)) ELSE queue,
                            Tail(events))

Dropped(results) == { i \in 1..Len(results) : ~results[i].queued }

\* the statics after initializePressureTelemetry, for signal p and timeout t
SignalInitial(p, t) ==
    /\ signalInput = p
    /\ sampleIndex = 0
    /\ intervalTimeout = t
    /\ filtersInitialized = FALSE
    /\ primaryFiltered = 0
    /\ secondaryFiltered = 0
    /\ derivativeWindow = ZeroWindow
    /\ windowPushed = << >>
    /\ filteredDerivative = 0
    /\ stateMachine = [ currentState |-> "STABLE", stateStartTime |-> 0 ]
    /\ stableAccumulator = ZeroAccumulator
    /\ currentEvent = ZeroEvent
    /\ eventInProgress = FALSE
    /\ eventsQueueFull = 0
    /\ queueFullNotified = 0
    /\ lastFinalized = << >>
    /\ entryDerivative = 0
    /\ telemetryFailing = FALSE
    /\ g_pressureQueue = 0
    /\ queueFailCount = 0
    /\ readerFailing = FALSE
    /\ readerNotified = 0
    /\ ReaderInitial

\* initializePressureTelemetry called again by setup() after a restart
SignalRestart ==
    /\ sampleIndex' = 0
    /\ filtersInitialized' = FALSE
    /\ primaryFiltered' = 0
    /\ secondaryFiltered' = 0
    /\ derivativeWindow' = ZeroWindow
    /\ windowPushed' = << >>
    /\ filteredDerivative' = 0
    /\ stateMachine' = [ currentState |-> "STABLE", stateStartTime |-> 0 ]
    /\ stableAccumulator' = ZeroAccumulator
    /\ currentEvent' = ZeroEvent
    /\ eventInProgress' = FALSE
    /\ eventsQueueFull' = 0
    /\ queueFullNotified' = 0
    /\ lastFinalized' = << >>
    /\ entryDerivative' = 0
    /\ telemetryFailing' = FALSE
    /\ g_pressureQueue' = 0
    /\ queueFailCount' = 0
    /\ readerFailing' = FALSE
    /\ readerNotified' = 0
    /\ ReaderRestart
    /\ UNCHANGED << signalInput, intervalTimeout >>

\* one pass of the receive loop of pressureTelemetryTask: the next reading
\* of Queue A is taken and processed to the end of the loop body (for the
\* validated signal the statics of validatePressureReading move on to the
\* reading taken)
TelemetryProcessReading ==
    /\ CanRun("pressureTelemetry")
    /\ sampleIndex < ProfileLength
    /\ sampleIndex' = sampleIndex + 1
    /\ UNCHANGED << signalInput, intervalTimeout >>
    /\ LET reading == NextReading
           rawFloat == reading.rawValue * FixedScale
           primary == applyEPAFilter(rawFloat, primaryFiltered, EPA_ALPHA_PRIMARY)
           secondary == applyEPAFilter(primary, secondaryFiltered, EPA_ALPHA_SECONDARY)
           filteredValue == secondary \div FixedScale
           window == addToDerivativeWindow(derivativeWindow, secondary, reading.timestamp)
           currentDerivative == calculateDerivative(window)
           derivative == applyEPAFilter(currentDerivative, filteredDerivative,
                                        DERIVATIVE_FILTER_ALPHA)
           machine == updateSignalStateMachine(stateMachine, derivative, reading.timestamp)
           stateChanged == machine.currentState # stateMachine.currentState
           \* the STABLE branch
           closeChanging == stateChanged /\ eventInProgress
           accumulated == processStablePeriod(stableAccumulator, filteredValue,
                                              reading.timestamp)
           finalizeStable == StableShouldFinalize(accumulated, reading.timestamp,
                                                  intervalTimeout)
           \* the CHANGING branch
           closeStable == stateChanged /\ stableAccumulator.sampleCount > 0
           extended == processChangingPeriod(
                           IF eventInProgress THEN currentEvent ELSE ZeroEvent,
                           filteredValue, reading.timestamp, derivative)
           finalizeChanging == ChangingShouldFinalize(extended, reading.timestamp,
                                                      intervalTimeout)
           events ==
               IF machine.currentState = "STABLE"
               THEN (IF closeChanging THEN << ChangingEvent(currentEvent) >> ELSE << >>)
                    \o (IF finalizeStable
                        THEN << StablePeriodEvent(accumulated, reading.timestamp) >>
                        ELSE << >>)
               ELSE (IF closeStable
                     THEN << StablePeriodEvent(
                                 PeriodLeft(stableAccumulator, filteredValue,
                                            reading.timestamp),
                                 reading.timestamp) >>
                     ELSE << >>)
                    \o (IF finalizeChanging THEN << ChangingEvent(extended) >> ELSE << >>)
           results == SendResults(g_pressureEventQueue, events)
           drops == Cardinality(Dropped(results))
       IN  IF ~reading.isValid
           THEN /\ lastFinalized' = << >>
                /\ UNCHANGED << filtersInitialized, primaryFiltered, secondaryFiltered,
                                derivativeWindow, windowPushed, filteredDerivative,
                                stateMachine,
                                stableAccumulator, currentEvent, eventInProgress,
                                eventsQueueFull, queueFullNotified, entryDerivative,
                                g_pressureEventQueue, notifyValue, produced,
                                telemetryFailing >>
           ELSE IF ~filtersInitialized
           THEN /\ primaryFiltered' = rawFloat
                /\ secondaryFiltered' = rawFloat
                /\ filtersInitialized' = TRUE
                /\ stateMachine' = [ stateMachine EXCEPT !.stateStartTime = reading.timestamp ]
                /\ lastFinalized' = << >>
                /\ UNCHANGED << derivativeWindow, windowPushed, filteredDerivative,
                                stableAccumulator, currentEvent, eventInProgress,
                                eventsQueueFull, queueFullNotified, entryDerivative,
                                g_pressureEventQueue, notifyValue, produced,
                                telemetryFailing >>
           ELSE /\ primaryFiltered' = primary
                /\ secondaryFiltered' = secondary
                /\ derivativeWindow' = window
                /\ windowPushed' = LastPushed(windowPushed, secondary, reading.timestamp)
                /\ filteredDerivative' = derivative
                /\ stateMachine' = machine
                /\ UNCHANGED filtersInitialized
                /\ entryDerivative' = IF stateChanged /\ machine.currentState = "CHANGING"
                                      THEN derivative ELSE entryDerivative
                /\ IF machine.currentState = "STABLE"
                   THEN /\ stableAccumulator' = IF finalizeStable THEN ZeroAccumulator
                                                ELSE accumulated
                        /\ currentEvent' = IF closeChanging THEN ZeroEvent ELSE currentEvent
                        /\ eventInProgress' = IF closeChanging THEN FALSE
                                              ELSE eventInProgress
                   ELSE /\ stableAccumulator' = IF closeStable THEN ZeroAccumulator
                                                ELSE stableAccumulator
                        /\ currentEvent' = IF finalizeChanging THEN ZeroEvent ELSE extended
                        /\ eventInProgress' = ~finalizeChanging
                /\ g_pressureEventQueue' = QueueBAfter(g_pressureEventQueue, events)
                /\ lastFinalized' = results
                /\ produced' = produced + Len(events)
                /\ eventsQueueFull' = eventsQueueFull + drops
                /\ queueFullNotified' = queueFullNotified + drops
                /\ telemetryFailing' = IF results = << >> THEN telemetryFailing
                                       ELSE ~results[Len(results)].queued
                /\ notifyValue' = IF drops > 0 /\ ctrlPc # "boot"
                                  THEN notifyValue \cup { "PRESSURE_QUEUE_FULL" }
                                  ELSE notifyValue
    /\ IF signalInput = "rampValidated"
       THEN /\ lastValidRawValue' = NextVerdict.lastValidRawValue
            /\ firstSample' = NextVerdict.firstSample
            /\ consecutiveInvalidCount' = NextVerdict.consecutiveInvalidCount
       ELSE UNCHANGED << lastValidRawValue, firstSample, consecutiveInvalidCount >>
    /\ UNCHANGED << g_systemState, event, ctrlPc, suspended, g_otaTaskHandle, tickStartState, netVars,
                    mqttReached >>
    /\ UNCHANGED fmtVars
    /\ UNCHANGED << g_pressureQueue, queueFailCount, readerFailing, readerNotified,
                    readerPc, g_i2cMutex, readerReading, success,
                    i2cConsecutiveErrors, levelRun, busRun >>

----------------------------------------------------------------------------
(* Sample Source: the overflow of Queue A *)

PRESSURE_QUEUE_SIZE == 300
\* failed sends of the Sample Source since boot
MaxQueueFails == 3
\* events finalized by the Signal Processor in the overflow specification
MaxProducedOverflow == 3

\* one period of pressureReaderTask: the reading is sent to Queue A with
\* timeout 0; a failed send counts in queueFailCount, and the controller is
\* notified when the count becomes 1
ReaderSample ==
    /\ CanRun("pressureReader")
    /\ g_pressureQueue < PRESSURE_QUEUE_SIZE \/ queueFailCount < MaxQueueFails
    /\ IF g_pressureQueue < PRESSURE_QUEUE_SIZE
       THEN /\ g_pressureQueue' = g_pressureQueue + 1
            /\ readerFailing' = FALSE
            /\ UNCHANGED << queueFailCount, readerNotified, notifyValue >>
       ELSE /\ queueFailCount' = queueFailCount + 1
            /\ readerFailing' = TRUE
            /\ readerNotified' = IF queueFailCount + 1 = 1 THEN readerNotified + 1
                                 ELSE readerNotified
            /\ notifyValue' = IF queueFailCount + 1 = 1 /\ ctrlPc # "boot"
                              THEN notifyValue \cup { "PRESSURE_QUEUE_FULL" }
                              ELSE notifyValue
            /\ UNCHANGED g_pressureQueue
    /\ UNCHANGED << g_systemState, event, ctrlPc, suspended, g_otaTaskHandle, tickStartState, netVars,
                    g_pressureEventQueue, produced, mqttReached >>
    /\ UNCHANGED fmtVars
    /\ UNCHANGED procVars
    /\ UNCHANGED busVars
    /\ UNCHANGED << eventsQueueFull, queueFullNotified, telemetryFailing >>

\* xQueueReceive(g_pressureQueue, &reading, 0) of pressureTelemetryTask, seen
\* from Queue A: a waiting reading is taken (what becomes of the reading is
\* TelemetryProcessReading; the events it finalizes are ProcessorFinalize)
TelemetryReceive ==
    /\ CanRun("pressureTelemetry")
    /\ g_pressureQueue > 0
    /\ g_pressureQueue' = g_pressureQueue - 1
    /\ UNCHANGED << queueFailCount, readerFailing, readerNotified >>
    /\ UNCHANGED << g_pressureEventQueue, produced, mqttReached >>
    /\ UNCHANGED ctrlVars
    /\ UNCHANGED fmtVars
    /\ UNCHANGED procVars
    /\ UNCHANGED busVars
    /\ UNCHANGED << eventsQueueFull, queueFullNotified, telemetryFailing >>

----------------------------------------------------------------------------
(* Boot and restart *)

\* the connectivity at the start of a specification that takes it as given:
\* network, provisioning API and broker can be reached and the credentials
\* are stored and loaded; wifi and transport say whether the station and
\* the MQTT client are connected
NetInitial(wifi, transport) ==
    /\ networkAvailable = TRUE
    /\ wifiStatus = wifi
    /\ credentialsInFlash = TRUE
    /\ apiAvailable = TRUE
    /\ credentialsLoaded = TRUE
    /\ brokerAvailable = TRUE
    /\ mqttConnected = transport
    /\ reconnectDue = FALSE

\* the state when initializeSystemState has created the pipeline tasks:
\* the formatter task exists and is not suspended yet
BootState ==
    /\ g_systemState = "CONNECTING"
    /\ notifyValue = {}
    /\ event = {}
    /\ ctrlPc = "boot"
    /\ suspended = InitSuspended
    /\ g_otaTaskHandle = FALSE
    /\ tickStartState = g_systemState
    /\ NetInitial(FALSE, FALSE)
    /\ fmtPc = "check"
    /\ fmtElapsed = 0
    /\ batchAge = 0
    /\ eventBatchBuffer = << >>
    /\ g_pressureEventQueue = << >>
    /\ g_mqttQueue = << >>
    /\ jsonErrors = 0
    /\ produced = 0
    /\ mqttReached = FALSE
    /\ SignalInitial("constant", MAX_STABLE_EVENT_DURATION_MS)

\* setup() goes on once the formatter task blocks: vTaskSuspend of the
\* formatter, then the state manager task is created and waits for
\* notifications
BootFinish ==
    /\ ctrlPc = "boot"
    /\ fmtPc \in { "wait", "gateDelay" }
    /\ suspended' = suspended \cup { "messageFormatter" }
    /\ ctrlPc' = "wait"
    /\ UNCHANGED << g_systemState, notifyValue, event, g_otaTaskHandle, tickStartState, netVars,
                    produced, g_pressureEventQueue, mqttReached >>
    /\ UNCHANGED fmtVars
    /\ UNCHANGED sigVars

\* ESP.restart() after the 5000 ms delay of the ERROR case
Restart ==
    /\ ctrlPc = "restartDelay"
    /\ g_systemState' = "CONNECTING"
    /\ notifyValue' = {}
    /\ event' = {}
    /\ ctrlPc' = "boot"
    /\ suspended' = InitSuspended
    /\ g_otaTaskHandle' = FALSE
    /\ tickStartState' = "CONNECTING"
    /\ wifiStatus' = FALSE
    /\ credentialsLoaded' = credentialsInFlash
    /\ mqttConnected' = FALSE
    /\ reconnectDue' = FALSE
    /\ UNCHANGED << networkAvailable, credentialsInFlash, apiAvailable, brokerAvailable >>
    /\ fmtPc' = "check"
    /\ fmtElapsed' = 0
    /\ batchAge' = 0
    /\ eventBatchBuffer' = << >>
    /\ g_pressureEventQueue' = << >>
    /\ g_mqttQueue' = << >>
    /\ jsonErrors' = 0
    /\ produced' = 0
    /\ mqttReached' = FALSE
    /\ SignalRestart

----------------------------------------------------------------------------
(* Specifications *)

Init == BootState

Next ==
    \/ BootFinish
    \/ \E e \in NotifiedEvents : NotifySystemState(e)
    \/ HandleStateTransitions
    \/ HandleStateActions
    \/ StateManagementDelay
    \/ Restart
    \/ FormatterGate
    \/ FormatterReceive
    \/ FormatterDrained
    \/ FormatterFlush
    \/ FormatterWake
    \/ \E e \in LifecycleEvents : ProcessorFinalize(e, MaxProducedLifecycle)
    \/ MqttReceive
    \/ ClockTick

\* the whole system from boot
Spec == Init /\ [][Next]_vars

\* r changes with samples followed by s stable periods
PrefilledBatch(r, s) ==
    [ i \in 1..(r + s) |-> IF i <= r THEN RisingEvent(JSON_SAMPLES_CAP) ELSE StableEvent ]

\* batches collected since the last flush when the observation starts:
\* none, six stable periods, three changes and three stable periods
InitialBatches == { << >>, PrefilledBatch(0, 6), PrefilledBatch(3, 3) }

\* the pipeline running in CONNECTED_MQTT, the controller idle in its delay,
\* the batch younger than the flush timeout
InitBatch ==
    /\ g_systemState = "CONNECTED_MQTT"
    /\ notifyValue = {}
    /\ event = {}
    /\ ctrlPc = "delay"
    /\ suspended = { "wifiConfig", "mqttConnect", "button" }
    /\ g_otaTaskHandle = FALSE
    /\ tickStartState = g_systemState
    /\ NetInitial(TRUE, TRUE)
    /\ fmtPc = "check"
    /\ fmtElapsed = 0
    /\ batchAge = 0
    /\ eventBatchBuffer \in InitialBatches
    /\ g_pressureEventQueue = << >>
    /\ g_mqttQueue = << >>
    /\ jsonErrors = 0
    /\ produced = 0
    /\ mqttReached = TRUE
    /\ SignalInitial("constant", MAX_STABLE_EVENT_DURATION_MS)

NextBatch ==
    \/ FormatterGate
    \/ FormatterReceive
    \/ FormatterDrained
    \/ FormatterFlush
    \/ FormatterWake
    \/ \E e \in BatchEvents : ProcessorFinalize(e, MaxProducedBatch)
    \/ MqttReceive
    \/ ClockTick

\* the batcher between the Signal Processor and the publisher
SpecBatch == InitBatch /\ [][NextBatch]_vars

\* a message of one stable period, as sendEventBatchToMqtt builds it
StableMessage ==
    [ events |-> << StableEvent >>,
      payloadLen |-> SerializeJson(<< StableEvent >>,
                                   CHOOSE sent \in SentTimestamps : TRUE) ]

\* Queue C when the observation starts: empty, or holding MQTT_QUEUE_SIZE
\* messages that the publisher has not taken yet
InitialQueueC == { << >>, [ i \in 1..MQTT_QUEUE_SIZE |-> StableMessage ] }

\* the pipeline running in CONNECTED_MQTT with a backlog in Queue C
InitDelivery ==
    /\ g_systemState = "CONNECTED_MQTT"
    /\ notifyValue = {}
    /\ event = {}
    /\ ctrlPc = "delay"
    /\ suspended = SuspendedIn("CONNECTED_MQTT")
    /\ g_otaTaskHandle = FALSE
    /\ tickStartState = g_systemState
    /\ NetInitial(TRUE, TRUE)
    /\ fmtPc = "check"
    /\ fmtElapsed = 0
    /\ batchAge = 0
    /\ eventBatchBuffer \in InitialBatches
    /\ g_pressureEventQueue = << >>
    /\ g_mqttQueue \in InitialQueueC
    /\ jsonErrors = 0
    /\ produced = 0
    /\ mqttReached = TRUE
    /\ SignalInitial("constant", MAX_STABLE_EVENT_DURATION_MS)

\* the batcher between the Signal Processor and a publisher that may lag
SpecDelivery == InitDelivery /\ [][NextBatch]_vars

\* events finalized before the observation of the ordering starts
OrderBacklog == 15
\* events finalized by the Signal Processor in the ordering specification
MaxProducedOrder == 3

\* the k-th stable period of a constant signal: the periods follow each
\* other every MIN_STABLE_DURATION_MS
NthEvent(k) ==
    [ StableEvent EXCEPT !.startTimestamp = @ + MIN_STABLE_DURATION_MS * k,
                         !.endTimestamp = @ + MIN_STABLE_DURATION_MS * k ]

\* the message sendEventBatchToMqtt builds from a batch
MessageOf(batch) ==
    [ events |-> MessageEvents(batch),
      payloadLen |-> SerializeJson(MessageEvents(batch),
                                   CHOOSE sent \in SentTimestamps : TRUE) ]

\* the pipeline in CONNECTED_MQTT with the periods finalized so far spread
\* over the stages in the order of their production: Queue C empty or full
\* of one-event messages, the batch empty or holding six events, Queue B
\* empty or holding nine
InitOrder ==
    /\ g_systemState = "CONNECTED_MQTT"
    /\ notifyValue = {}
    /\ event = {}
    /\ ctrlPc = "delay"
    /\ suspended = SuspendedIn("CONNECTED_MQTT")
    /\ g_otaTaskHandle = FALSE
    /\ tickStartState = g_systemState
    /\ NetInitial(TRUE, TRUE)
    /\ fmtPc = "check"
    /\ fmtElapsed = 0
    /\ batchAge = 0
    /\ g_mqttQueue \in { << >>, [ i \in 1..MQTT_QUEUE_SIZE |->
                                    MessageOf(<< NthEvent(i - MQTT_QUEUE_SIZE) >>) ] }
    /\ eventBatchBuffer \in { << >>, [ i \in 1..6 |-> NthEvent(i) ] }
    /\ g_pressureEventQueue \in { << >>, [ i \in 1..9 |-> NthEvent(6 + i) ] }
    /\ jsonErrors = 0
    /\ produced = 0
    /\ mqttReached = TRUE
    /\ SignalInitial("constant", MAX_STABLE_EVENT_DURATION_MS)

NextOrder ==
    \/ FormatterGate
    \/ FormatterReceive
    \/ FormatterDrained
    \/ FormatterFlush
    \/ FormatterWake
    \/ ProcessorFinalize(NthEvent(OrderBacklog + produced + 1), MaxProducedOrder)
    \/ MqttReceive
    \/ ClockTick

\* the stages from Queue B to Queue C fed with periods in sequence
SpecOrder == InitOrder /\ [][NextOrder]_vars

\* Queue B when the observation of the Signal Processor starts: empty, or
\* the stable periods finalized while the Message Batcher was suspended
InitialQueueB == { << >>, [ i \in 1..QueueBBacklog |-> StableEvent ] }

\* the Sample Source and the Signal Processor running in CONNECTED_WIFI,
\* the Message Batcher suspended, the controller idle in its delay
InitSignal ==
    /\ g_systemState = "CONNECTED_WIFI"
    /\ notifyValue = {}
    /\ event = {}
    /\ ctrlPc = "delay"
    /\ suspended = SuspendedIn("CONNECTED_WIFI")
    /\ g_otaTaskHandle = FALSE
    /\ tickStartState = g_systemState
    /\ NetInitial(TRUE, FALSE)
    /\ fmtPc = "check"
    /\ fmtElapsed = 0
    /\ batchAge = 0
    /\ eventBatchBuffer = << >>
    /\ g_pressureEventQueue \in InitialQueueB
    /\ g_mqttQueue = << >>
    /\ jsonErrors = 0
    /\ produced = 0
    /\ mqttReached = FALSE
    /\ \E p \in SignalProfiles, t \in IntervalTimeouts : SignalInitial(p, t)

NextSignal ==
    \/ TelemetryProcessReading

\* the Signal Processor on one signal
SpecSignal == InitSignal /\ [][NextSignal]_vars

\* the Sample Source and the Signal Processor running in CONNECTED_WIFI
\* with Queue A empty
InitOverflow ==
    /\ g_systemState = "CONNECTED_WIFI"
    /\ notifyValue = {}
    /\ event = {}
    /\ ctrlPc = "delay"
    /\ suspended = SuspendedIn("CONNECTED_WIFI")
    /\ g_otaTaskHandle = FALSE
    /\ tickStartState = g_systemState
    /\ NetInitial(TRUE, FALSE)
    /\ fmtPc = "check"
    /\ fmtElapsed = 0
    /\ batchAge = 0
    /\ eventBatchBuffer = << >>
    /\ g_pressureEventQueue \in InitialQueueB
    /\ g_mqttQueue = << >>
    /\ jsonErrors = 0
    /\ produced = 0
    /\ mqttReached = FALSE
    /\ SignalInitial("constant", MAX_STABLE_EVENT_DURATION_MS)

NextOverflow ==
    \/ ReaderSample
    \/ TelemetryReceive
    \/ \E e \in LifecycleEvents : ProcessorFinalize(e, MaxProducedOverflow)

\* the two producers at their queues
SpecOverflow == InitOverflow /\ [][NextOverflow]_vars

\* the Sample Source running in CONNECTED_MQTT, just initialized
InitReader ==
    /\ g_systemState = "CONNECTED_MQTT"
    /\ notifyValue = {}
    /\ event = {}
    /\ ctrlPc = "delay"
    /\ suspended = SuspendedIn("CONNECTED_MQTT")
    /\ g_otaTaskHandle = FALSE
    /\ tickStartState = g_systemState
    /\ NetInitial(TRUE, TRUE)
    /\ fmtPc = "check"
    /\ fmtElapsed = 0
    /\ batchAge = 0
    /\ eventBatchBuffer = << >>
    /\ g_pressureEventQueue = << >>
    /\ g_mqttQueue = << >>
    /\ jsonErrors = 0
    /\ produced = 0
    /\ mqttReached = TRUE
    /\ SignalInitial("constant", MAX_STABLE_EVENT_DURATION_MS)

NextReader ==
    \/ ReaderTake
    \/ ReaderTransaction
    \/ ReaderRecover
    \/ ReaderReinit
    \/ ReaderValidate
    \/ OtherBusTake
    \/ OtherBusGive

\* the Sample Source at the bus
SpecReader == InitReader /\ [][NextReader]_vars

\* the Sample Source (priority 5) has left the processor: it is suspended,
\* waits for its period, waits for the bus transaction to end, or is in the
\* delay of reinitializeI2C
ReaderOffProcessor ==
    \/ "pressureReader" \in suspended
    \/ readerPc \in { "read", "bus", "reinit" }

\* the Sample Source reading the sensor without faults while the controller
\* goes through its ticks, which it does whenever the Sample Source has left
\* the processor
NextSuspend ==
    \/ ReaderTake
    \/ ReaderTransaction /\ success' /\ readerReading'.rawValue = BaseValue
    \/ ReaderRecover
    \/ ReaderValidate
    \/ \E e \in NotifiedEvents : NotifySystemState(e)
    \/ ReaderOffProcessor /\ HandleStateTransitions
    \/ ReaderOffProcessor /\ HandleStateActions
    \/ ReaderOffProcessor /\ StateManagementDelay

\* the Lifecycle Controller beside the Sample Source, from CONNECTED_MQTT
SpecSuspend == InitReader /\ [][NextSuspend]_vars

----------------------------------------------------------------------------
(* Properties: Lifecycle Controller *)

\* the pipeline stages running at the end of a tick in state s, as the
\* action table leaves them on the first entry into s
StagesRunningIn(s) ==
    CASE s = "CONNECTED_WIFI" -> { "pressureReader", "pressureTelemetry" }
      [] s = "CONNECTED_MQTT" -> PipelineTasks
      [] s = "OTA_UPDATE"     -> { "messageFormatter" }
      [] s = "ERROR"          -> { "messageFormatter" }
      [] OTHER                -> {}

C2_DequeueOnlyInConnectedMqtt ==
    [][FormatterReceive => g_systemState = "CONNECTED_MQTT"]_vars

\* C3: from boot until the System State first becomes CONNECTED_MQTT the
\* Batcher takes nothing from Queue B and puts nothing into Queue C.
C3_NoBatcherTrafficBeforeMqtt ==
    [][~mqttReached =>
          /\ ~FormatterReceive
          /\ Len(g_pressureEventQueue') >= Len(g_pressureEventQueue)
          /\ g_mqttQueue' = g_mqttQueue]_vars

\* C3 witness: before CONNECTED_MQTT was ever reached the Batcher has run its
\* gate with an event waiting in Queue B, and went to its delay.
C3_Witness ==
    /\ ~mqttReached
    /\ g_pressureEventQueue # << >>
    /\ fmtPc = "gateDelay"
    /\ g_mqttQueue = << >>

\* C4: when the ERROR actions are applied, all three pipeline stages are
\* paused before the restart delay starts.
C4_AllStagesPausedInRestartDelay ==
    ctrlPc = "restartDelay" => PipelineTasks \subseteq suspended

C6_LongPressForcesConfigMode ==
    [][(HandleStateTransitions /\ "LONG_PRESS_BUTTON" \in notifyValue) =>
          g_systemState' = "CONFIG_MODE"]_vars

\* C6 witness: the transition step has run on a long press drained together
\* with another event, and the state is CONFIG_MODE.
C6_Witness ==
    /\ ctrlPc = "actions"
    /\ "LONG_PRESS_BUTTON" \in event
    /\ Cardinality(event) > 1
    /\ g_systemState = "CONFIG_MODE"

----------------------------------------------------------------------------
(* Properties: Message Batcher *)

\* C7: in CONNECTED_MQTT, at the end of every Batcher tick in which the
\* batch holds MAX_EVENTS_PER_MESSAGE events, or at least one event while
\* FORMATTER_SEND_TIMEOUT_MS have passed since the last flush, the batch
\* has been flushed and is empty.
C7_FlushedWhenFullOrTimedOut ==
    [][(/\ FormatterFlush
        /\ g_systemState = "CONNECTED_MQTT"
        /\ \/ Len(eventBatchBuffer) >= MAX_EVENTS_PER_MESSAGE
           \/ /\ Len(eventBatchBuffer) > 0
              /\ fmtElapsed >= FORMATTER_SEND_TIMEOUT_MS)
       => eventBatchBuffer' = << >>]_vars

\* C8: every message is built from the longest prefix of the batch whose
\* size estimate stays under the ceiling: no message holds events beyond
\* the count calculateOptimalBatchSize allows.
C8_MessageWithinEstimate ==
    \A i \in 1..Len(g_mqttQueue) :
        Len(g_mqttQueue[i].events) <= calculateOptimalBatchSize(g_mqttQueue[i].events)

C10_FailedBatchDiscarded ==
    [][(FormatterFlush /\ jsonErrors' # jsonErrors) =>
          /\ jsonErrors' = jsonErrors + 1
          /\ eventBatchBuffer' = << >>
          /\ g_mqttQueue' = g_mqttQueue]_vars

----------------------------------------------------------------------------
(* Properties: Signal Processor *)

\* the stable periods among the events finalized by the last reading
StableFinalized(results) ==
    { i \in 1..Len(results) : ~results[i].event.hasDetailedSamples }

\* the detailed events among the events finalized by the last reading
ChangingFinalized(results) ==
    { i \in 1..Len(results) : results[i].event.hasDetailedSamples }

Duration(ev) == ev.endTimestamp - ev.startTimestamp

\* C11: while the Signal State remains STABLE the stable period in progress
\* is closed only when its accumulated duration has reached the maximum
\* timeout; it is never closed because of the number of samples.
C11_StableClosedOnlyByTimeout ==
    [][(TelemetryProcessReading
          /\ stateMachine.currentState = "STABLE"
          /\ stateMachine'.currentState = "STABLE") =>
         \A i \in StableFinalized(lastFinalized') :
            Duration(lastFinalized'[i].event) >= intervalTimeout]_vars

\* readings of the Sample Source in three seconds
ThreeSeconds == 3 * SENSOR_SAMPLE_RATE_HZ

\* C12: valid readings constant at 5,000,000 for 3 seconds at 100 Hz give
\* exactly one event: it is STABLE, its sampleCount is about 300 (within a
\* tenth) and its startValue and endValue are 5,000,000.
C12_ConstantGivesOneStableEvent ==
    (signalInput = "constant" /\ sampleIndex <= ThreeSeconds) =>
        /\ \A i \in 1..Len(lastFinalized) :
              LET ev == lastFinalized[i].event
              IN  /\ ev.type = "STABLE"
                  /\ Abs(ThreeSeconds - ev.sampleCount) <= ThreeSeconds \div 10
                  /\ ev.startValue = BaseValue
                  /\ ev.endValue = BaseValue
        /\ sampleIndex = ThreeSeconds => produced = 1

\* C13: every event enqueued to Queue B, whatever its type, has a
\* sampleCount of at most MAX_SAMPLES_PER_EVENT.
C13_QueuedSampleCountWithinCapacity ==
    \A i \in 1..Len(lastFinalized) :
        lastFinalized[i].queued =>
            lastFinalized[i].event.sampleCount <= MAX_SAMPLES_PER_EVENT

\* the timestamp of the reading processed last
LastTimestamp == Reading(signalInput, sampleIndex).timestamp

\* C14: the Signal State goes from STABLE to CHANGING only on a smoothed
\* derivative above the threshold in magnitude, and from CHANGING to STABLE
\* only on one below 0.8 times the threshold, at a reading at least
\* MIN_EVENT_DURATION_MS after the entry into CHANGING; a derivative inside
\* the band between the two causes no transition in either direction.
C14_TransitionsByHysteresis ==
    [][TelemetryProcessReading =>
         /\ (stateMachine.currentState = "STABLE"
                /\ stateMachine'.currentState = "CHANGING") =>
               Abs(filteredDerivative') > EnterThreshold
         /\ (stateMachine.currentState = "CHANGING"
                /\ stateMachine'.currentState = "STABLE") =>
               /\ Abs(filteredDerivative') < ExitThreshold
               /\ LastTimestamp' - stateMachine.stateStartTime >= MIN_EVENT_DURATION_MS
         /\ (/\ filteredDerivative' # filteredDerivative
             /\ Abs(filteredDerivative') >= ExitThreshold
             /\ Abs(filteredDerivative') <= EnterThreshold) =>
               stateMachine'.currentState = stateMachine.currentState]_vars

\* the derivative has fallen from above the threshold into the band and the
\* Signal State is still CHANGING
C14_Witness ==
    /\ stateMachine.currentState = "CHANGING"
    /\ Abs(entryDerivative) > EnterThreshold
    /\ Abs(filteredDerivative) >= ExitThreshold
    /\ Abs(filteredDerivative) < EnterThreshold
    /\ LastTimestamp - stateMachine.stateStartTime >= MIN_EVENT_DURATION_MS

\* C15: on the reading that flips the Signal State the period being left is
\* finalized without the flipping reading, and queued or dropped and
\* counted; the flipping reading is the first sample of the new period.
C15_FlipClosesPeriodFirst ==
    [][TelemetryProcessReading =>
         /\ (/\ stateMachine.currentState = "STABLE"
             /\ stateMachine'.currentState = "CHANGING"
             /\ stableAccumulator.sampleCount > 0) =>
               /\ lastFinalized' # << >>
               /\ ~lastFinalized'[1].event.hasDetailedSamples
               /\ lastFinalized'[1].event.sampleCount = stableAccumulator.sampleCount
               /\ lastFinalized'[1].event.startTimestamp = stableAccumulator.periodStartTime
               /\ stableAccumulator' = ZeroAccumulator
               /\ currentEvent'.sampleCount = 1
               /\ currentEvent'.startTimestamp = LastTimestamp'
         /\ (/\ stateMachine.currentState = "CHANGING"
             /\ stateMachine'.currentState = "STABLE"
             /\ eventInProgress) =>
               /\ lastFinalized' # << >>
               /\ lastFinalized'[1].event.hasDetailedSamples
               /\ lastFinalized'[1].event.sampleCount = currentEvent.sampleCount
               /\ lastFinalized'[1].event.endTimestamp = currentEvent.endTimestamp
               /\ currentEvent' = ZeroEvent
               /\ ~eventInProgress'
               /\ stableAccumulator'.sampleCount = 1
               /\ stableAccumulator'.periodStartTime = LastTimestamp'
         /\ stateMachine'.currentState # stateMachine.currentState =>
               /\ eventsQueueFull' = eventsQueueFull + Cardinality(Dropped(lastFinalized'))
               /\ Len(g_pressureEventQueue') =
                     Len(g_pressureEventQueue) + Len(lastFinalized')
                       - Cardinality(Dropped(lastFinalized'))]_vars

\* the reading that flipped the state to CHANGING has closed a stable
\* period of several samples and is the one sample of the new event
C15_Witness ==
    /\ stateMachine.currentState = "CHANGING"
    /\ stateMachine.stateStartTime = LastTimestamp
    /\ Len(lastFinalized) = 1
    /\ lastFinalized[1].event.type = "STABLE"
    /\ lastFinalized[1].event.sampleCount > 1
    /\ currentEvent.sampleCount = 1
    /\ stableAccumulator.sampleCount = 0

\* the reading processed by the step is a valid one, past the first
ValidReadingProcessed ==
    /\ TelemetryProcessReading
    /\ filtersInitialized
    /\ NextReading.isValid

C17_TriggerReasonFromEntry ==
    \A i \in ChangingFinalized(lastFinalized) :
        /\ entryDerivative > 0 =>
              lastFinalized[i].event.triggerReason = "DERIVATIVE_RISING"
        /\ entryDerivative < 0 =>
              lastFinalized[i].event.triggerReason = "DERIVATIVE_FALLING"

\* the mean of the derivatives of the samples of a detailed event
MeanDerivative(ev) == MeanOfDerivatives(ev.samples, Len(ev.samples))

\* the type the classification rule gives for average derivative avg
TypeByRule(ev, avg) ==
    LET change == ev.endValue - ev.startValue
    IN  IF Abs(avg) < StableClassThreshold THEN "STABLE"
        ELSE IF change > 0 /\ avg > 0 THEN "RISING"
        ELSE IF change < 0 /\ avg < 0 THEN "FALLING"
        ELSE "OSCILLATION"

\* C18 as stated: a detailed event is typed STABLE if the magnitude of its
\* average derivative is below 0.3 times the threshold, otherwise RISING if
\* net change and average derivative are both positive, FALLING if both are
\* negative, OSCILLATION in every other case.
C18_TypeFromAverageDerivative ==
    \A i \in ChangingFinalized(lastFinalized) :
        LET ev == lastFinalized[i].event
        IN  ev.type = TypeByRule(ev, MeanDerivative(ev))

\* C18 amended: the average derivative is the mean of the derivatives of the
\* samples for an event of two samples or more and 0 for an event of one
\* sample, which is therefore typed STABLE; the rule is otherwise as stated.
C18_TypeFromAverageOfSeveral ==
    \A i \in ChangingFinalized(lastFinalized) :
        LET ev == lastFinalized[i].event
        IN  ev.type = TypeByRule(ev, IF ev.sampleCount > 1 THEN MeanDerivative(ev)
                                     ELSE 0)

\* an event of several samples whose value fell while its average
\* derivative was positive has been typed OSCILLATION
C18_Witness ==
    \E i \in ChangingFinalized(lastFinalized) :
        LET ev == lastFinalized[i].event
        IN  /\ ev.sampleCount > 1
            /\ ev.endValue < ev.startValue
            /\ MeanDerivative(ev) >= StableClassThreshold
            /\ ev.type = "OSCILLATION"

\* C19: when Queue B is full at a finalize the event is discarded without
\* waiting or retrying: the queue keeps its content, the drop counter goes
\* up by one per discarded event, the controller is notified, and the
\* accumulators hold nothing but the reading that has just been processed.
C19_FullQueueDropsEvent ==
    [][(TelemetryProcessReading /\ Dropped(lastFinalized') # {}) =>
         /\ Len(g_pressureEventQueue') = PRESSURE_EVENT_QUEUE_SIZE
         /\ SubSeq(g_pressureEventQueue', 1, Len(g_pressureEventQueue)) =
               g_pressureEventQueue
         /\ \A i \in Dropped(lastFinalized') :
               \A k \in (Len(g_pressureEventQueue) + 1)..Len(g_pressureEventQueue') :
                  g_pressureEventQueue'[k] # lastFinalized'[i].event
         /\ eventsQueueFull' = eventsQueueFull + Cardinality(Dropped(lastFinalized'))
         /\ queueFullNotified' > queueFullNotified
         /\ "PRESSURE_QUEUE_FULL" \in notifyValue'
         /\ sampleIndex' = sampleIndex + 1
         /\ stableAccumulator'.sampleCount + currentEvent'.sampleCount <= 1
         /\ eventInProgress' = (currentEvent'.sampleCount = 1)
         /\ stableAccumulator'.sampleCount = 1 =>
               stableAccumulator'.periodStartTime = LastTimestamp'
         /\ currentEvent'.sampleCount = 1 =>
               currentEvent'.startTimestamp = LastTimestamp']_vars

\* a detailed event finalized at capacity has been dropped at the full
\* queue, and the reading after it has started a new event
C19_Witness ==
    /\ Len(g_pressureEventQueue) = PRESSURE_EVENT_QUEUE_SIZE
    /\ eventsQueueFull >= 1
    /\ "PRESSURE_QUEUE_FULL" \in notifyValue
    /\ lastFinalized = << >>
    /\ eventInProgress
    /\ currentEvent.sampleCount = 1
    /\ currentEvent.startTimestamp > stateMachine.stateStartTime

\* C20: in every maximal run of consecutive failed enqueues of one producer
\* the controller is notified at the first failure and at no other: a
\* failed send after a successful one notifies, a failed send after a
\* failed one does not.
C20_NotifiedOncePerEpisode ==
    [][/\ queueFailCount' = queueFailCount + 1 =>
            readerNotified' = readerNotified + (IF readerFailing THEN 0 ELSE 1)
       /\ eventsQueueFull' = eventsQueueFull + 1 =>
            queueFullNotified' =
                queueFullNotified + (IF telemetryFailing THEN 0 ELSE 1)]_vars

----------------------------------------------------------------------------
(* Properties: queues *)

\* the Sample Source tried to enqueue a reading to Queue A
ReaderEnqueues == ReaderSample

\* the Signal Processor tried to enqueue an event to Queue B
ProcessorEnqueues == produced' = produced + 1

\* the Message Batcher tried to enqueue a message to Queue C: the batch is
\* reset only after the xQueueSend of sendEventBatchToMqtt
BatcherEnqueues == eventBatchBuffer # << >> /\ eventBatchBuffer' = << >>

\* C21 (Queue A): every reading the Sample Source tries to enqueue is
\* either one more reading in Queue A or one more in queueFailCount.
C21_QueueAAccounted ==
    [][ReaderEnqueues =>
          \/ g_pressureQueue' = g_pressureQueue + 1 /\ UNCHANGED queueFailCount
          \/ queueFailCount' = queueFailCount + 1 /\ UNCHANGED g_pressureQueue]_vars

\* C21 (Queue B): every event the Signal Processor tries to enqueue is
\* either one more event in Queue B or one more in eventsQueueFull.
C21_QueueBAccounted ==
    [][ProcessorEnqueues =>
          \/ /\ Len(g_pressureEventQueue') = Len(g_pressureEventQueue) + 1
             /\ UNCHANGED eventsQueueFull
          \/ /\ eventsQueueFull' = eventsQueueFull + 1
             /\ UNCHANGED g_pressureEventQueue]_vars

\* C21: for each of the three queues every item the producer tries to
\* enqueue is accounted for: it is either one more item in the queue or one
\* more in the producer's drop counter (queueFailCount for Queue A,
\* eventsQueueFull for Queue B; the Message Batcher keeps no drop counter,
\* so for Queue C the item has to be in the queue). Step by step this is
\* produced = consumed + queued + dropped.
C21_EveryEnqueueAccounted ==
    [][/\ ReaderEnqueues =>
            \/ g_pressureQueue' = g_pressureQueue + 1 /\ UNCHANGED queueFailCount
            \/ queueFailCount' = queueFailCount + 1 /\ UNCHANGED g_pressureQueue
       /\ ProcessorEnqueues =>
            \/ /\ Len(g_pressureEventQueue') = Len(g_pressureEventQueue) + 1
               /\ UNCHANGED eventsQueueFull
            \/ /\ eventsQueueFull' = eventsQueueFull + 1
               /\ UNCHANGED g_pressureEventQueue
       /\ BatcherEnqueues =>
            Len(g_mqttQueue') = Len(g_mqttQueue) + 1]_vars

RECURSIVE Flatten(_)
\* the events of a sequence of messages, message after message
Flatten(messages) ==
    IF messages = << >> THEN << >>
    ELSE Head(messages).events \o Flatten(Tail(messages))

\* the events on their way, from the head of Queue C to the tail of Queue B
InFlight == Flatten(g_mqttQueue) \o eventBatchBuffer \o g_pressureEventQueue

\* C22: the events in the messages of Queue C, then those in the batch,
\* then those in Queue B are in the order in which the Signal Processor
\* enqueued them (the order of their start timestamps): no two surviving
\* events are reordered within a message or across consecutive messages.
C22_SurvivingEventsInOrder ==
    \A i, j \in 1..Len(InFlight) :
        i < j => InFlight[i].startTimestamp < InFlight[j].startTimestamp

\* an event was dropped at Queue B, and Queue C holds a message of several
\* events followed by the message of an event finalized after the drop
C22_Witness ==
    /\ eventsQueueFull >= 1
    /\ \E i \in 1..Len(g_mqttQueue) :
          /\ i > 1
          /\ Len(g_mqttQueue[i - 1].events) > 1
          /\ g_mqttQueue[i].events[1].startTimestamp
                > NthEvent(OrderBacklog + 1).startTimestamp

----------------------------------------------------------------------------
(* Properties: Sample Source *)

\* C23: in a run of in-range readings at one level that began with an
\* established baseline farther away than the largest change per sample,
\* the readings are invalid while the consecutive invalid readings
\* (startInvalid before the run, then the run itself) are fewer than
\* MAX_CONSECUTIVE_INVALID; the reading that reaches the threshold resets
\* the baseline to the new level, once, and that reading and every further
\* reading of the run is valid.
C23_OneResetThenValid ==
    levelRun.startInvalid >= 0 =>
        LET reached == levelRun.startInvalid + levelRun.length >= MAX_CONSECUTIVE_INVALID
        IN  /\ levelRun.resets = IF reached THEN 1 ELSE 0
            /\ readerReading.isValid <=> reached
            /\ reached => lastValidRawValue = levelRun.level
            /\ ~reached => /\ lastValidRawValue # levelRun.level
                           /\ readerPc = "read" =>
                                 consecutiveInvalidCount =
                                    levelRun.startInvalid + levelRun.length

\* the 21st reading at a level first seen right after a valid reading of
\* the baseline: the baseline was reset once and the reading is valid
C23_Witness ==
    /\ levelRun.startInvalid = 0
    /\ levelRun.length = MAX_CONSECUTIVE_INVALID + 1
    /\ levelRun.resets = 1
    /\ readerReading.isValid
    /\ lastValidRawValue = levelRun.level

\* C24: with busRun.failed the failed bus reads since the last successful
\* one, the bus has been reinitialized once for every
\* I2C_MAX_ERRORS_BEFORE_RESET of them and at no other time, the controller
\* has been notified once for each reinitialization, the failure count has
\* restarted from zero after each and is zero after a successful read, and
\* right after a reinitialization the validation baseline is reset.
C24_RecoveryEveryTenFailures ==
    LET tens == busRun.failed \div I2C_MAX_ERRORS_BEFORE_RESET
        left == busRun.failed % I2C_MAX_ERRORS_BEFORE_RESET
    IN  /\ busRun.notified = tens
        /\ busRun.notified >= 1 => "I2C_ERROR_RECOVERY" \in notifyValue
        /\ IF readerPc = "reinit"
           THEN /\ busRun.recoveries = tens - 1
                /\ left = 0
                /\ i2cConsecutiveErrors = I2C_MAX_ERRORS_BEFORE_RESET
           ELSE /\ busRun.recoveries = tens
                /\ i2cConsecutiveErrors = left
        /\ readerPc = "validate" /\ ~success /\ left = 0 =>
              firstSample /\ consecutiveInvalidCount = 0

\* the twentieth failed read in a row has just been handled: the bus was
\* reinitialized for the second time
C24_Witness ==
    /\ readerPc = "validate"
    /\ ~success
    /\ busRun.failed = 2 * I2C_MAX_ERRORS_BEFORE_RESET
    /\ busRun.recoveries = 2
    /\ busRun.notified = 2
    /\ i2cConsecutiveErrors = 0
    /\ firstSample

\* the Sample Source is operating on the bus: in the transaction with the
\* sensor, or in Wire.end() ... Wire.begin() of reinitializeI2C
ReaderOnBus == readerPc \in { "bus", "reinit" }

\* C25: whenever the Sample Source operates on the bus, in the periodic
\* read or in the teardown and reinitialization of the fault recovery, it
\* holds the bus mutex, so no other task holds it at that time.
C25_BusOperationsUnderMutex ==
    ReaderOnBus => g_i2cMutex = "pressureReader"

----------------------------------------------------------------------------
(* Properties: blocking calls of the pipeline stages *)

I2C_TIMEOUT_MS == 10
TELEMETRY_PROCESS_INTERVAL_MS == 100
FORMATTER_PROCESS_INTERVAL_MS == 100

\* a blocking call: what it waits for, whether the wait has a time bound,
\* and the bound in ms
Wait(kind, bounded, ms) == [ kind |-> kind, bounded |-> bounded, ms |-> ms ]

\* the blocking calls of pressureReaderTask at position pc: the wait for
\* the bus mutex, delay(10) of reinitializeI2C, xQueueSend with timeout 0
\* and vTaskDelayUntil
ReaderWaits(pc) ==
    CASE pc = "read"     -> { Wait("busMutex", TRUE, I2C_TIMEOUT_MS) }
      [] pc = "reinit"   -> { Wait("delay", TRUE, 10) }
      [] pc = "validate" -> { Wait("queue", TRUE, 0),
                              Wait("delay", TRUE, SENSOR_SAMPLE_INTERVAL_MS) }
      [] OTHER           -> {}

\* the blocking calls of pressureTelemetryTask: xQueueReceive and
\* xQueueSend with timeout 0, vTaskDelayUntil
ProcessorWaits ==
    { Wait("queue", TRUE, 0), Wait("delay", TRUE, TELEMETRY_PROCESS_INTERVAL_MS) }

\* the blocking calls of messageFormatterTask at position pc:
\* getSystemState takes g_stateMutex with portMAX_DELAY, vTaskDelay(1000),
\* xQueueReceive with timeout 0, xQueueSend with a timeout of 100 ms,
\* vTaskDelayUntil
BatcherWaits(pc) ==
    CASE pc = "check"     -> { Wait("stateMutex", FALSE, 0) }
      [] pc = "gateDelay" -> { Wait("delay", TRUE, 1000) }
      [] pc = "drain"     -> { Wait("queue", TRUE, 0) }
      [] pc = "flush"     -> { Wait("queue", TRUE, 100) }
      [] pc = "wait"      -> { Wait("delay", TRUE, FORMATTER_PROCESS_INTERVAL_MS) }
      [] OTHER            -> {}

\* C26: no pipeline stage ever waits without a time bound: the wait of the
\* Source, the Processor and the Batcher at their present positions is a
\* delay, a bounded queue wait or the bounded wait for the bus mutex.
C26_EveryWaitBounded ==
    \A w \in ReaderWaits(readerPc) \cup ProcessorWaits \cup BatcherWaits(fmtPc) :
        w.bounded /\ w.kind \in { "delay", "queue", "busMutex" }

----------------------------------------------------------------------------
(* Properties: serialization of the samples *)

\* characters of the members of an event object other than "samples"
EventMetadataLen(e) ==
    Len("{\"type\":\"") + Len(getEventTypeString(e.type)) + Len("\"")
    + Len(",\"startTimestamp\":") + Digits(e.startTimestamp)
    + Len(",\"endTimestamp\":") + Digits(e.endTimestamp)
    + Len(",\"sampleCount\":") + Digits(e.sampleCount)
    + Len(",\"duration_ms\":") + Digits(e.endTimestamp - e.startTimestamp)
    + (IF e.type = "STABLE"
       THEN Len(",\"pressure\":") + Digits((e.startValue + e.endValue) \div 2)
       ELSE Len(",\"startValue\":") + Digits(e.startValue)
            + Len(",\"endValue\":") + Digits(e.endValue)
            + Len(",\"triggerReason\":\"")
            + Len(getTriggerReasonString(e.triggerReason)) + Len("\""))
    + Len("}")

\* characters of a "samples" member holding all the samples of the event
SamplesMemberLen(e) ==
    Len(",\"samples\":[")
    + JoinedLen([ i \in 1..e.sampleCount |-> SampleJsonLen(e.samples[i]) ])
    + Len("]")

\* the event gets a "samples" member under the rule: not STABLE, detailed
\* samples carried, at most largest samples
SamplesByRule(e, largest) ==
    e.type # "STABLE" /\ e.hasDetailedSamples /\ e.sampleCount <= largest

\* characters of the document of a message in which exactly the events
\* picked by the rule have a "samples" member
MessageLenByRule(events, sent, largest) ==
    Len("{\"sensor_id\":\"") + Len(DeviceId) + Len("\"")
    + Len(",\"sentTimestamp\":") + Digits(sent)
    + Len(",\"events\":[")
    + JoinedLen([ i \in 1..Len(events) |->
                   EventMetadataLen(events[i])
                   + (IF SamplesByRule(events[i], largest)
                      THEN SamplesMemberLen(events[i]) ELSE 0) ])
    + Len("]}")

\* the messages of Queue C that were written whole
WholeMessages ==
    { g_mqttQueue[i] : i \in { j \in 1..Len(g_mqttQueue) :
                                  g_mqttQueue[j].payloadLen < PAYLOAD_SIZE - 1 } }

----------------------------------------------------------------------------
(* Properties: warm-up of the derivative window *)

\* the Derivative Window holds fewer than DERIVATIVE_WINDOW_SIZE entries
WindowPartiallyFull == derivativeWindow.count < DERIVATIVE_WINDOW_SIZE

\* C28: while the Derivative Window is partially full the derivative
\* computed from it is zero, and the Signal State, STABLE at the start,
\* has not gone to CHANGING.
C28_NoDerivativeDuringWarmUp ==
    WindowPartiallyFull =>
        /\ calculateDerivative(derivativeWindow) = 0
        /\ stateMachine.currentState = "STABLE"

----------------------------------------------------------------------------
(* Properties: the two accumulations *)

\* C29: after each reading the Stable Accumulator holds samples only if
\* the Signal State is STABLE, a detailed event is in progress (and holds
\* samples) only if the Signal State is CHANGING, and the two are never
\* active together.
C29_AccumulationFollowsState ==
    /\ stableAccumulator.sampleCount > 0 => stateMachine.currentState = "STABLE"
    /\ eventInProgress => stateMachine.currentState = "CHANGING"
    /\ currentEvent.sampleCount > 0 => eventInProgress
    /\ ~(stableAccumulator.sampleCount > 0 /\ eventInProgress)

\* the reading that took the state to CHANGING closed a stable period: the
\* accumulator is empty and the detailed event holds that reading
C29_Witness ==
    /\ stateMachine.currentState = "CHANGING"
    /\ Len(lastFinalized) = 1
    /\ ~lastFinalized[1].event.hasDetailedSamples
    /\ stableAccumulator.sampleCount = 0
    /\ eventInProgress
    /\ currentEvent.sampleCount = 1

----------------------------------------------------------------------------
(* Properties: the action table applied again *)

\* C30: whenever handleStateActions has applied the case of a System
\* State, applying the case of that state once more (with the OTA task
\* handle as it was or as it is now) leaves every pipeline task running or
\* paused as it is.
C30_StateActionsIdempotent ==
    [][HandleStateActions =>
          \A ota \in { g_otaTaskHandle, g_otaTaskHandle' } :
              ApplyStateActions(g_systemState, suspended', ota) \cap PipelineTasks
                = suspended' \cap PipelineTasks]_vars

\* the OTA_UPDATE case has run and created the OTA task: the next tick
\* runs the case again with the handle set
C30_Witness ==
    /\ g_systemState = "OTA_UPDATE"
    /\ g_otaTaskHandle
    /\ ctrlPc = "actions"
    /\ suspended \cap PipelineTasks = { "pressureReader", "pressureTelemetry" }

----------------------------------------------------------------------------
(* Connectivity: the WiFi task, the credential task and the publisher *)

\* isConnected(): the station is connected, has an address and reaches the
\* remote host
isConnected == wifiStatus /\ networkAvailable

\* wifiConnectTask, one turn of its loop with WiFi parameters stored in the
\* EEPROM: a connected station notifies EVENT_WIFI_CONNECTED; otherwise
\* WiFi.disconnect, WiFi.begin and the wait for WL_CONNECTED, which ends
\* with EVENT_WIFI_CONNECTED or, after the timeout, EVENT_WIFI_FAIL_CONNECT
WifiConnectLoop ==
    /\ ctrlPc # "boot"
    /\ CanRun("wifiConnect")
    /\ IF isConnected
       THEN /\ notifyValue' = notifyValue \cup { "WIFI_CONNECTED" }
            /\ UNCHANGED wifiStatus
       ELSE /\ wifiStatus' = networkAvailable
            /\ notifyValue' = notifyValue \cup
                   { IF networkAvailable THEN "WIFI_CONNECTED"
                                         ELSE "WIFI_FAIL_CONNECT" }
    /\ UNCHANGED << networkAvailable, credentialsInFlash, apiAvailable,
                    credentialsLoaded, brokerAvailable, mqttConnected,
                    reconnectDue >>
    /\ UNCHANGED << g_systemState, event, ctrlPc, suspended, g_otaTaskHandle,
                    tickStartState, produced, g_pressureEventQueue, mqttReached >>
    /\ UNCHANGED fmtVars
    /\ UNCHANGED sigVars

\* mqttConnectTask, one turn of its loop: credentials in flash are loaded and
\* notified; without them the task waits for the station, then asks the
\* provisioning API, which stores and notifies them or fails with
\* EVENT_MQTT_DISCONNECTED
MqttConnectLoop ==
    /\ ctrlPc # "boot"
    /\ CanRun("mqttConnect")
    /\ credentialsInFlash \/ wifiStatus
    /\ IF credentialsInFlash \/ (apiAvailable /\ networkAvailable)
       THEN /\ credentialsInFlash' = TRUE
            /\ credentialsLoaded' = TRUE
            /\ notifyValue' = notifyValue \cup { "MQTT_AWS_CREDENTIALS" }
       ELSE /\ notifyValue' = notifyValue \cup { "MQTT_DISCONNECTED" }
            /\ UNCHANGED << credentialsInFlash, credentialsLoaded >>
    /\ UNCHANGED << networkAvailable, wifiStatus, apiAvailable, brokerAvailable,
                    mqttConnected, reconnectDue >>
    /\ UNCHANGED << g_systemState, event, ctrlPc, suspended, g_otaTaskHandle,
                    tickStartState, produced, g_pressureEventQueue, mqttReached >>
    /\ UNCHANGED fmtVars
    /\ UNCHANGED sigVars

\* Case 1 of mqttPublishTask: the client is connected and the state read at
\* the top of the loop is not CONNECTED_MQTT
PublisherNotifiesConnected(connected, currentState) ==
    connected /\ currentState # "CONNECTED_MQTT"

\* the bits one turn of the loop of mqttPublishTask sets
PublisherBits ==
    (IF PublisherNotifiesConnected(mqttConnected, g_systemState)
     THEN { "MQTT_CONNECTED" } ELSE {})
    \cup
    (IF ~mqttConnected /\ reconnectDue
     THEN IF ~wifiStatus THEN { "WIFI_DISCONNECTED" }
          ELSE IF brokerAvailable /\ networkAvailable
               THEN { "MQTT_CONNECTED" } ELSE {}
     ELSE {})

\* mqttPublishTask, one turn of its main loop once the credentials are
\* loaded: Case 1; without a connection and with the reconnect interval
\* over, EVENT_WIFI_DISCONNECTED if the station is down and connectMQTT
\* otherwise; with a connection, one message of Queue C is published
MqttPublishLoop ==
    /\ ctrlPc # "boot"
    /\ CanRun("mqtt")
    /\ credentialsLoaded
    /\ \/ PublisherNotifiesConnected(mqttConnected, g_systemState)
       \/ ~mqttConnected /\ reconnectDue
       \/ mqttConnected /\ g_mqttQueue # << >>
    /\ notifyValue' = notifyValue \cup PublisherBits
    /\ IF mqttConnected
       THEN /\ g_mqttQueue' = IF g_mqttQueue # << >> THEN Tail(g_mqttQueue)
                                                   ELSE g_mqttQueue
            /\ UNCHANGED << mqttConnected, reconnectDue >>
       ELSE /\ reconnectDue' = FALSE
            /\ mqttConnected' = (wifiStatus /\ brokerAvailable /\ networkAvailable)
            /\ UNCHANGED g_mqttQueue
    /\ UNCHANGED << networkAvailable, wifiStatus, credentialsInFlash,
                    apiAvailable, credentialsLoaded, brokerAvailable >>
    /\ UNCHANGED << g_systemState, event, ctrlPc, suspended, g_otaTaskHandle,
                    tickStartState, produced, g_pressureEventQueue, mqttReached >>
    /\ UNCHANGED << fmtPc, fmtElapsed, batchAge, eventBatchBuffer, jsonErrors >>
    /\ UNCHANGED sigVars

\* millis() passes lastReconnectAttempt + MQTT_RECONNECT_INTERVAL_MS
MqttReconnectDue ==
    /\ ~reconnectDue
    /\ reconnectDue' = TRUE
    /\ UNCHANGED << networkAvailable, wifiStatus, credentialsInFlash,
                    apiAvailable, credentialsLoaded, brokerAvailable,
                    mqttConnected >>
    /\ UNCHANGED << g_systemState, notifyValue, event, ctrlPc, suspended,
                    g_otaTaskHandle, tickStartState, produced,
                    g_pressureEventQueue, mqttReached >>
    /\ UNCHANGED fmtVars
    /\ UNCHANGED sigVars

\* the MQTT client loses its connection (keepalive, broker, network)
TransportLost ==
    /\ mqttConnected
    /\ mqttConnected' = FALSE
    /\ UNCHANGED << networkAvailable, wifiStatus, credentialsInFlash,
                    apiAvailable, credentialsLoaded, brokerAvailable,
                    reconnectDue >>
    /\ UNCHANGED << g_systemState, notifyValue, event, ctrlPc, suspended,
                    g_otaTaskHandle, tickStartState, produced,
                    g_pressureEventQueue, mqttReached >>
    /\ UNCHANGED fmtVars
    /\ UNCHANGED sigVars

\* the network comes or goes; the station may notice the loss at once
NetworkChange ==
    /\ networkAvailable' = ~networkAvailable
    /\ wifiStatus' \in { wifiStatus, wifiStatus /\ ~networkAvailable }
    /\ UNCHANGED << credentialsInFlash, apiAvailable, credentialsLoaded,
                    brokerAvailable, mqttConnected, reconnectDue >>
    /\ UNCHANGED << g_systemState, notifyValue, event, ctrlPc, suspended,
                    g_otaTaskHandle, tickStartState, produced,
                    g_pressureEventQueue, mqttReached >>
    /\ UNCHANGED fmtVars
    /\ UNCHANGED sigVars

\* the provisioning API comes or goes
ApiChange ==
    /\ apiAvailable' = ~apiAvailable
    /\ UNCHANGED << networkAvailable, wifiStatus, credentialsInFlash,
                    credentialsLoaded, brokerAvailable, mqttConnected,
                    reconnectDue >>
    /\ UNCHANGED << g_systemState, notifyValue, event, ctrlPc, suspended,
                    g_otaTaskHandle, tickStartState, produced,
                    g_pressureEventQueue, mqttReached >>
    /\ UNCHANGED fmtVars
    /\ UNCHANGED sigVars

\* the broker comes or goes
BrokerChange ==
    /\ brokerAvailable' = ~brokerAvailable
    /\ UNCHANGED << networkAvailable, wifiStatus, credentialsInFlash,
                    apiAvailable, credentialsLoaded, mqttConnected,
                    reconnectDue >>
    /\ UNCHANGED << g_systemState, notifyValue, event, ctrlPc, suspended,
                    g_otaTaskHandle, tickStartState, produced,
                    g_pressureEventQueue, mqttReached >>
    /\ UNCHANGED fmtVars
    /\ UNCHANGED sigVars

\* CONNECTING after setup(): the state manager waits for its first
\* notification, the formatter, the credential task and the publisher are
\* suspended; the credential task has run once when it was created (its
\* priority is above that of setup()) and has loaded what the flash holds
InitConnect ==
    /\ g_systemState = "CONNECTING"
    /\ notifyValue = {}
    /\ event = {}
    /\ ctrlPc = "wait"
    /\ suspended = InitSuspended \cup { "messageFormatter" }
    /\ g_otaTaskHandle = FALSE
    /\ tickStartState = g_systemState
    /\ networkAvailable \in BOOLEAN
    /\ wifiStatus = FALSE
    /\ credentialsInFlash \in BOOLEAN
    /\ apiAvailable \in BOOLEAN
    /\ credentialsLoaded = credentialsInFlash
    /\ brokerAvailable \in BOOLEAN
    /\ mqttConnected = FALSE
    /\ reconnectDue = FALSE
    /\ fmtPc = "wait"
    /\ fmtElapsed = 0
    /\ batchAge = 0
    /\ eventBatchBuffer = << >>
    /\ g_pressureEventQueue = << >>
    /\ g_mqttQueue = << >>
    /\ jsonErrors = 0
    /\ produced = 0
    /\ mqttReached = FALSE
    /\ SignalInitial("constant", MAX_STABLE_EVENT_DURATION_MS)

NextConnect ==
    \/ HandleStateTransitions
    \/ HandleStateActions
    \/ StateManagementDelay
    \/ WifiConnectLoop
    \/ MqttConnectLoop
    \/ MqttPublishLoop
    \/ MqttReconnectDue
    \/ TransportLost
    \/ NetworkChange
    \/ ApiChange
    \/ BrokerChange

\* The connection of the gateway from CONNECTING.  The state manager has
\* the highest priority of these tasks and blocks in every tick (the 50 ms
\* wait for a notification, the delay of the loop), so its steps are taken
\* whenever they stay enabled, and a task of priority 2 that is not
\* suspended gets the processor in those intervals although it cannot run
\* during the actions of the tick: strong fairness for the three loops.
\* Nothing is assumed of the network, the API and the broker.
SpecConnect ==
    /\ InitConnect
    /\ [][NextConnect]_vars
    /\ WF_vars(HandleStateTransitions)
    /\ WF_vars(HandleStateActions)
    /\ WF_vars(StateManagementDelay)
    /\ WF_vars(MqttReconnectDue)
    /\ SF_vars(WifiConnectLoop)
    /\ SF_vars(MqttConnectLoop)
    /\ SF_vars(MqttPublishLoop)

----------------------------------------------------------------------------
(* Properties: the ramp *)

\* the place of event i of the last reading among all events finalized
EventNumber(i) == produced - Len(lastFinalized) + i

\* C31: a ramp from 3,000,000 to 4,000,000 over one second at 100 Hz takes
\* the Signal State to CHANGING; the first event finalized is the STABLE
\* event of the period before, finalized at the reading that enters
\* CHANGING; the event after it is a detailed one, and every detailed event
\* is RISING with endValue > startValue and triggerReason DERIVATIVE_RISING;
\* at the end of the signal at least one of them has been finalized.
C31_RampGivesStableThenRising ==
    signalInput \in RampSignals =>
        /\ \A i \in 1..Len(lastFinalized) :
              LET ev == lastFinalized[i].event
              IN  /\ EventNumber(i) = 1 =>
                        /\ ev.type = "STABLE"
                        /\ ~ev.hasDetailedSamples
                        /\ stateMachine.currentState = "CHANGING"
                  /\ EventNumber(i) = 2 => ev.hasDetailedSamples
                  /\ ev.hasDetailedSamples =>
                        /\ ev.type = "RISING"
                        /\ ev.endValue > ev.startValue
                        /\ ev.triggerReason = "DERIVATIVE_RISING"
        /\ sampleIndex >= ProfileLength => produced >= 2

\* the second RISING event of the ramp as the Sample Source validates it,
\* sent to Queue B
C31_Witness ==
    /\ signalInput = "rampValidated"
    /\ produced - Cardinality(Dropped(lastFinalized)) >= 3
    /\ \E i \in 1..Len(lastFinalized) :
          /\ lastFinalized[i].queued
          /\ lastFinalized[i].event.type = "RISING"
          /\ lastFinalized[i].event.triggerReason = "DERIVATIVE_RISING"
          /\ EventNumber(i) = 3
----------------------------------------------------------------------------
(* Properties: the button task *)

\* buttonTask polls the pin every 50 ms and sends EVENT_LONG_PRESS_BUTTON
\* once the pin has been low for more than LONG_PRESS_TIME; it does so only
\* while it is not suspended
LONG_PRESS_TIME == 5000
ButtonTaskRuns(susp) == "button" \notin susp

\* C32: in every System State other than ERROR and OTA_UPDATE the actions
\* of the state leave the button task running (so that a long press of 5
\* seconds is detected and delivered, in particular in CONNECTING).
C32_ButtonRunsOutsideErrorAndOta ==
    [][(HandleStateActions /\ g_systemState \notin { "ERROR", "OTA_UPDATE" }) =>
         ButtonTaskRuns(suspended')]_vars
----------------------------------------------------------------------------
(* Properties: the intervals of the events *)

\* the events the Signal Processor has sent to Queue B, in the order of
\* their xQueueSend (the Message Batcher takes none while it is suspended)
SentToQueueB ==
    SubSeq(g_pressureEventQueue,
           Len(g_pressureEventQueue) - (produced - eventsQueueFull) + 1,
           Len(g_pressureEventQueue))

\* C33: with readings of non-decreasing timestamps every event sent to
\* Queue B ends no earlier than it starts, and every event starts no earlier
\* than the event sent before it ends.
C33_EventIntervalsInOrder ==
    \A k \in 1..Len(SentToQueueB) :
        /\ SentToQueueB[k].endTimestamp >= SentToQueueB[k].startTimestamp
        /\ k > 1 => SentToQueueB[k].startTimestamp >= SentToQueueB[k - 1].endTimestamp

\* a stable period, a detailed event that starts at the reading which ended
\* the period, and a stable period after the event, all three in Queue B
C33_Witness ==
    \E k \in 1..Len(SentToQueueB) - 2 :
        /\ ~SentToQueueB[k].hasDetailedSamples
        /\ SentToQueueB[k + 1].hasDetailedSamples
        /\ SentToQueueB[k + 1].startTimestamp = SentToQueueB[k].endTimestamp
        /\ SentToQueueB[k + 1].endTimestamp > SentToQueueB[k + 1].startTimestamp
        /\ ~SentToQueueB[k + 2].hasDetailedSamples
        /\ SentToQueueB[k + 2].startTimestamp > SentToQueueB[k + 1].endTimestamp
----------------------------------------------------------------------------
(* Properties: one tick of the controller *)

\* the states some setSystemState of the case of state s names
DirectSuccessors(s) ==
    CASE s = "CONNECTING"     -> { "CONFIG_MQTT", "CONFIG_MODE" }
      [] s = "CONFIG_MQTT"    -> { "CONNECTED_WIFI" }
      [] s = "CONNECTED_WIFI" -> { "CONNECTED_MQTT" }
      [] s = "CONNECTED_MQTT" -> { "CONFIG_MQTT", "CONNECTING", "OTA_UPDATE" }
      [] s = "CONFIG_MODE"    -> { "CONFIG_MQTT" }
      [] OTHER                -> {}

\* the start state, CONFIG_MODE, or a state the case of the start state sets
WithinOneTransition(start, s) ==
    s \in { start, "CONFIG_MODE" } \cup DirectSuccessors(start)

\* C34 as stated: the transitions of a tick are those of the state that was
\* current when the notifications were drained, so at the end of the tick
\* the System State is the start state, CONFIG_MODE or a direct successor
\* of the start state in the transition table.
C34_TickEndsWithinOneTransition ==
    [][/\ HandleStateTransitions => WithinOneTransition(g_systemState, g_systemState')
       /\ HandleStateActions => WithinOneTransition(tickStartState, g_systemState')]_vars

\* C34 amended: the transitions of a tick are those of the state that was
\* current when the notifications were drained; at the end of the tick the
\* System State is the start state, CONFIG_MODE, a direct successor of the
\* start state, or ERROR when the tick has entered OTA_UPDATE and the OTA
\* task could not be created.
C34_TickEndsWithinOneTransitionOrOtaError ==
    [][/\ HandleStateTransitions => WithinOneTransition(g_systemState, g_systemState')
       /\ HandleStateActions =>
             \/ WithinOneTransition(tickStartState, g_systemState')
             \/ /\ g_systemState = "OTA_UPDATE"
                /\ ~g_otaTaskHandle'
                /\ g_systemState' = "ERROR"]_vars

\* two notifications drained in CONNECTING: the first has set CONFIG_MQTT,
\* the second, which the case of CONFIG_MQTT tests, has changed nothing
C34_Witness ==
    /\ ctrlPc = "actions"
    /\ tickStartState = "CONNECTING"
    /\ event = { "WIFI_CONNECTED", "MQTT_AWS_CREDENTIALS" }
    /\ g_systemState = "CONFIG_MQTT"
----------------------------------------------------------------------------
(* Properties: the content of the derivative window *)

\* the (value, timestamp) pairs in the slots of the window that have been
\* written
PairsHeld(window) ==
    { [ value |-> window.values[i], timestamp |-> window.timestamps[i] ] :
        i \in 0..(window.count - 1) }

PairsOf(pushed) == { pushed[j] : j \in 1..Len(pushed) }

\* C35: after k >= 1 pushes the Derivative Window holds exactly the
\* min(k, N) pairs pushed last, and the derivative is the slope between the
\* oldest and the newest of them, zero with fewer than 2 pairs or with equal
\* timestamps.
C35_WindowHoldsLastPushed ==
    /\ derivativeWindow.count = Len(windowPushed)
    /\ PairsHeld(derivativeWindow) = PairsOf(windowPushed)
    /\ calculateDerivative(derivativeWindow) =
          IF Len(windowPushed) < 2 THEN 0
          ELSE LET oldest == windowPushed[1]
                   newest == windowPushed[Len(windowPushed)]
               IN  IF newest.timestamp = oldest.timestamp THEN 0
                   ELSE MulDiv(newest.value - oldest.value, 1000,
                               newest.timestamp - oldest.timestamp)

\* the window is full and has wrapped: the oldest pair is not in slot 0, and
\* the derivative between the oldest and the newest pair is not zero
C35_Witness ==
    /\ derivativeWindow.count = DERIVATIVE_WINDOW_SIZE
    /\ derivativeWindow.writeIndex \notin { 0, 1 }
    /\ sampleIndex > 2 * DERIVATIVE_WINDOW_SIZE
    /\ calculateDerivative(derivativeWindow) # 0
----------------------------------------------------------------------------
(* Properties: suspension and the mutexes *)

\* task t is between xSemaphoreTake and xSemaphoreGive of the bus mutex
HoldsBusMutex(t) == g_i2cMutex = t

\* C36: the Lifecycle Controller never suspends a task at a moment when the
\* task holds a mutex (so that no mutex stays with a suspended task and
\* every later acquisition by the controller completes).
C36_NoSuspendWhileHoldingMutex ==
    [][HandleStateActions =>
         \A t \in suspended' \ suspended : ~HoldsBusMutex(t)]_vars
----------------------------------------------------------------------------
(* Properties: the drain of Queue B into the batch *)

\* C37: every event the Message Batcher takes from Queue B goes into the
\* batch buffer (and from there into one message, or is lost at the flush);
\* none is discarded because the buffer already holds
\* MAX_EVENTS_PER_MESSAGE events.
C37_DequeuedEventEntersBatch ==
    [][FormatterReceive =>
         eventBatchBuffer' = Append(eventBatchBuffer, Head(g_pressureEventQueue))]_vars
----------------------------------------------------------------------------
(* Properties: every sample in one period *)

\* the samples of the events finalized by one reading
RECURSIVE SumSampleCounts(_)
SumSampleCounts(results) ==
    IF results = << >> THEN 0
    ELSE Head(results).event.sampleCount + SumSampleCounts(Tail(results))

\* the samples held by the accumulation in progress
SamplesInProgress(accumulator, ev) == accumulator.sampleCount + ev.sampleCount

\* C38: every valid reading after the first (which initialises the filters)
\* is counted in exactly one period: a reading adds one to the sum of the
\* sampleCount of the events finalized (sent or dropped) and of the samples
\* held by the accumulation in progress if it is valid and not the first,
\* and nothing otherwise; the sum therefore equals the number of valid
\* readings processed minus one.
C38_EverySampleInOnePeriod ==
    [][TelemetryProcessReading =>
         SumSampleCounts(lastFinalized')
             + SamplesInProgress(stableAccumulator', currentEvent')
           = SamplesInProgress(stableAccumulator, currentEvent)
             + (IF filtersInitialized /\ NextReading.isValid THEN 1 ELSE 0)]_vars

\* the reading that brought the state back to STABLE has closed a detailed
\* event of several samples and is the one sample of the new stable period
C38_Witness ==
    /\ stateMachine.currentState = "STABLE"
    /\ Len(lastFinalized) = 1
    /\ lastFinalized[1].event.hasDetailedSamples
    /\ lastFinalized[1].event.sampleCount > 1
    /\ stableAccumulator.sampleCount = 1
    /\ currentEvent.sampleCount = 0
    /\ produced >= 2
----------------------------------------------------------------------------
(* Properties: the connection *)

\* network, credentials and transport can all be had
AllAvailable ==
    /\ networkAvailable
    /\ credentialsInFlash \/ apiAvailable
    /\ brokerAvailable

\* CONNECTED_MQTT with Sample Source, Signal Processor and Batcher running
PipelineUp ==
    /\ g_systemState = "CONNECTED_MQTT"
    /\ PipelineTasks \cap suspended = {}

\* C39: whenever the publisher is without its transport connection while
\* the System State is CONNECTED_MQTT, the System State eventually leaves
\* CONNECTED_MQTT.
C39_TransportLossLeavesConnectedMqtt ==
    (g_systemState = "CONNECTED_MQTT" /\ ~mqttConnected)
        ~> (g_systemState # "CONNECTED_MQTT")

\* C40: from CONNECTING, if the network, the credentials and the transport
\* become available and stay available, the System State eventually is
\* CONNECTED_MQTT with the three pipeline stages running, and stays so,
\* whatever notifications were consumed and discarded on the way.
C40_AvailableLeadsToPipelineUp ==
    (<>[]AllAvailable) => <>[]PipelineUp

\* everything is available and connected, and the pipeline runs
C40_Witness ==
    /\ PipelineUp
    /\ AllAvailable
    /\ wifiStatus
    /\ credentialsLoaded
    /\ mqttConnected
====
